---------------------------- MODULE Spec2Model ----------------------------
(***************************************************************************)
(* The Synacor virtual machine of src/src/vm.rs as a state machine.        *)
(*                                                                         *)
(* A VM is the record [memory, registers, stack, pc] of struct VM.  The    *)
(* 32768-word memory array is kept sparsely: a function from the          *)
(* addresses whose word is not 0 to that word (every other cell holds 0),  *)
(* so that two equal arrays are equal values.  Words are u16 values; the   *)
(* stack is a Vec whose top is its last element; pc is a usize.            *)
(*                                                                         *)
(* cycle() reads the process's stdin and writes its stdout: stdin is the   *)
(* byte script `input` with the read cursor `inpos`, stdout is the byte    *)
(* sequence `output`.  A Rust panic (index out of bounds, remainder by     *)
(* zero) is the outcome "panic", which ends the process.                   *)
(***************************************************************************)
EXTENDS Integers, Sequences, FiniteSets, TLC

\* vm        the VM
\* input     every byte stdin will deliver, in order
\* inpos     how many of them have been read
\* output    the bytes written to stdout so far
\* trace     one record per call made so far: the operation, its operands, the
\*           VM before it (pre), its outcome (tag, val) and what it printed
\* restored  a second VM, built from a snapshot of the first, with its own
\*           stdin cursor and stdout
\* room      a Room::parse() call on the output buffer: where it is in the
\*           function, its cursor and its locals
\* solver    a search of one of the solvers (src/bin): where it is in the
\*           function, and its locals
VARIABLES vm, input, inpos, output, trace, restored, room, solver

vars == <<vm, input, inpos, output, trace, restored, room, solver>>

-----------------------------------------------------------------------------
(* Constants of vm.rs *)

INTEGER_SIZE == 15
MAX_VALUE == 2 ^ INTEGER_SIZE
ADDRESS_SPACE == MAX_VALUE
REGISTER_COUNT == 8
\* u16: the width of a word (memory cells, registers, stack elements)
U16_BITS == 16
U16_MOD == 2 ^ U16_BITS

-----------------------------------------------------------------------------
(* Bounds of the model *)

\* the longest program (in instructions) placed at address 0
MaxInstr == 2
\* the same, for the runs that take a snapshot
MaxInstrSnap == 1
\* the number of cycle() calls a run makes at most
MaxSteps == 7
\* the number of direct load()/set() calls a run makes at most
MaxCalls == 2
\* the longest image file (in bytes) loaded into a new VM
MaxImageBytes == 4
\* the longest program (in instructions) the driver loop is run on
MaxInstrDriver == 1
\* the number of loop iterations run_until_prompt makes at most
MaxDriverSteps == 18

-----------------------------------------------------------------------------
(* Words, bits, memory *)

RECURSIVE BitAnd(_, _)
\* u16 `&`
BitAnd(a, b) ==
  IF a = 0 \/ b = 0 THEN 0
  ELSE (IF a % 2 = 1 /\ b % 2 = 1 THEN 1 ELSE 0) + 2 * BitAnd(a \div 2, b \div 2)

RECURSIVE BitOr(_, _)
\* u16 `|`
BitOr(a, b) ==
  IF a = 0 THEN b
  ELSE IF b = 0 THEN a
  ELSE (IF a % 2 = 1 \/ b % 2 = 1 THEN 1 ELSE 0) + 2 * BitOr(a \div 2, b \div 2)

\* u16 `!`
BitNot(a) == (U16_MOD - 1) - a

\* memory[a] for an address inside the array
MemGet(m, a) == IF a \in DOMAIN m THEN m[a] ELSE 0

\* memory[a] = w for an address inside the array
MemPut(m, a, w) ==
  IF w = 0
  THEN [x \in DOMAIN m \ {a} |-> m[x]]
  ELSE [x \in DOMAIN m \cup {a} |-> IF x = a THEN w ELSE m[x]]

-----------------------------------------------------------------------------
(* Construction *)

\* VM::new
New ==
  [memory |-> [x \in {} |-> 0],
   registers |-> [r \in 0 .. REGISTER_COUNT - 1 |-> 0],
   stack |-> <<>>,
   pc |-> 0]

\* a chunk read with its two bytes in the other order
ChunkWordBigEndian(chunk) == BitOr(chunk[1] * 256, chunk[2])

\* One 2-byte chunk of a program image as a word: ((high) << 8) | low
ChunkWord(chunk) == BitOr(chunk[2] * 256, chunk[1])

\* VM::load_program_from_file.  The image file is given by the number of whole
\* 2-byte chunks it holds (at most ADDRESS_SPACE; a last odd byte is dropped by
\* exact_chunks) and by its chunks <<low, high>> that are not two zero bytes.
\* Chunk number i overwrites memory[i]; the cells past the image keep their word.
LoadProgram(v, image) ==
  LET written == {i \in DOMAIN image.nonzero : i < image.chunks}
      kept == {a \in DOMAIN v.memory : a >= image.chunks}
  IN [v EXCEPT !.memory =
        [a \in written \cup kept |->
           IF a \in written THEN ChunkWord(image.nonzero[a]) ELSE v.memory[a]]]

\* fs::read(path)?.exact_chunks(2): the whole 2-byte chunks of the file, chunk
\* number i being the bytes 2i and 2i + 1; a last odd byte belongs to no chunk
ExactChunks(bytes) ==
  LET chunks == Len(bytes) \div 2
      chunk(i) == <<bytes[2 * i + 1], bytes[2 * i + 2]>>
  IN [chunks |-> chunks,
      nonzero |-> [i \in {k \in 0 .. chunks - 1 : chunk(k) # <<0, 0>>} |-> chunk(i)]]

-----------------------------------------------------------------------------
(* Addressing: load and set *)

\* load with the last register left out of the register range
LoadStrictBound(v, address) ==
  IF address <= 32767 THEN [tag |-> "ok", val |-> address]
  ELSE IF address < 32775 THEN [tag |-> "ok", val |-> v.registers[address - 32768]]
  ELSE [tag |-> "invalid_load", val |-> address]

\* VM::load
Load(v, address) ==
  IF address <= 32767 THEN [tag |-> "ok", val |-> address]
  ELSE IF address <= 32775 THEN [tag |-> "ok", val |-> v.registers[address - 32768]]
  ELSE [tag |-> "invalid_load", val |-> address]

\* set with the destination checked before the source is loaded
SetDestinationFirst(v, destination_address, source_address) ==
  IF ~ (destination_address >= 32768 /\ destination_address <= 32775)
  THEN [tag |-> "invalid_store", val |-> destination_address, vm |-> v]
  ELSE IF source_address <= 32767
  THEN [tag |-> "ok", val |-> 0,
        vm |-> [v EXCEPT !.registers[destination_address - 32768] = source_address]]
  ELSE IF source_address <= 32775
  THEN [tag |-> "ok", val |-> 0,
        vm |-> [v EXCEPT !.registers[destination_address - 32768] =
                           v.registers[source_address - 32768]]]
  ELSE [tag |-> "invalid_load", val |-> source_address, vm |-> v]

\* VM::set: the source is loaded first, then the destination is checked
Set(v, destination_address, source_address) ==
  LET source == Load(v, source_address) IN
  IF source.tag # "ok"
  THEN [tag |-> source.tag, val |-> source.val, vm |-> v]
  ELSE IF destination_address >= 32768 /\ destination_address <= 32775
  THEN [tag |-> "ok", val |-> 0,
        vm |-> [v EXCEPT !.registers[destination_address - 32768] = source.val]]
  ELSE [tag |-> "invalid_store", val |-> destination_address, vm |-> v]

-----------------------------------------------------------------------------
(* One cycle.  A handler gets the VM as it is once the opcode and all the     *)
(* operands have been read (pc past them) and the operand words; it returns   *)
(* the VM after the step, the outcome (tag, val), the bytes printed and the   *)
(* number of stdin bytes read.                                                *)
(*   tag "ok"             Ok(true)                                            *)
(*       "halt"           Ok(false)                                           *)
(*       "invalid_load"   Err("Tried to load invalid address <val> ...")      *)
(*       "invalid_store"  Err("Tried to store at invalid register <val> ...") *)
(*       "pop_empty"      Err("Tried to pop from an empty stack ...")         *)
(*       "unknown_opcode" Err("Unknown opcode <val> ...")                     *)
(*       "panic"          the thread panicked inside cycle()                  *)

Outcome(v, tag, val) == [vm |-> v, tag |-> tag, val |-> val, out |-> <<>>, nread |-> 0]

Ok(v) == Outcome(v, "ok", 0)

\* halt!()
Halt(v) == Outcome(v, "halt", 0)

Panic(v) == Outcome(v, "panic", 0)

\* the `?` on a failed load or set
Fail(v, r) == Outcome(v, r.tag, r.val)

\* self.set(a, s)?; Ok(true)
SetAndFinish(v, a, s) ==
  LET r == Set(v, a, s) IN IF r.tag = "ok" THEN Ok(r.vm) ELSE Fail(v, r)

\* next_argument reading the word at pc without moving past it
NextArgumentStays(v) ==
  IF v.pc >= ADDRESS_SPACE
  THEN [panic |-> TRUE, value |-> 0, vm |-> v]
  ELSE [panic |-> FALSE, value |-> MemGet(v.memory, v.pc), vm |-> v]

\* VM::next_argument: memory[self.pc] panics when pc is past the array
NextArgument(v) ==
  IF v.pc >= ADDRESS_SPACE
  THEN [panic |-> TRUE, value |-> 0, vm |-> v]
  ELSE [panic |-> FALSE, value |-> MemGet(v.memory, v.pc), vm |-> [v EXCEPT !.pc = @ + 1]]

RECURSIVE NextArguments(_, _)
\* n calls of next_argument in a row: the words read, in order
NextArguments(v, n) ==
  IF n = 0 THEN [panic |-> FALSE, args |-> <<>>, vm |-> v]
  ELSE LET first == NextArgument(v) IN
       IF first.panic THEN [panic |-> TRUE, args |-> <<>>, vm |-> first.vm]
       ELSE LET others == NextArguments(first.vm, n - 1) IN
            [panic |-> others.panic,
             args |-> <<first.value>> \o others.args,
             vm |-> others.vm]

\* jmp!(location)
Jmp(v, location) ==
  LET r == Load(v, location) IN
  IF r.tag = "ok" THEN Ok([v EXCEPT !.pc = r.val]) ELSE Fail(v, r)

\* bool_operation!(a = b == c)
BoolOperationEq(v, a, b, c) ==
  LET bv == Load(v, b)
      cv == Load(v, c) IN
  IF bv.tag # "ok" THEN Fail(v, bv)
  ELSE IF cv.tag # "ok" THEN Fail(v, cv)
  ELSE IF bv.val = cv.val THEN SetAndFinish(v, a, 1) ELSE SetAndFinish(v, a, 0)

\* bool_operation!(a = b > c)
BoolOperationGt(v, a, b, c) ==
  LET bv == Load(v, b)
      cv == Load(v, c) IN
  IF bv.tag # "ok" THEN Fail(v, bv)
  ELSE IF cv.tag # "ok" THEN Fail(v, cv)
  ELSE IF bv.val > cv.val THEN SetAndFinish(v, a, 1) ELSE SetAndFinish(v, a, 0)

\* Wrapping<u16> arithmetic: the result is cut to 16 bits
WrappingAdd(x, y) == (x + y) % U16_MOD

\* a saturating product instead of a wrapping one
SaturatingMul(x, y) == IF x * y > U16_MOD - 1 THEN U16_MOD - 1 ELSE x * y

WrappingMul(x, y) == (x * y) % U16_MOD

\* the quotient instead of the remainder
QuotientForRem(x, y) == x \div y

\* Wrapping<u16> `%`; the divisor is not 0
WrappingRem(x, y) == x % y

\* binary_operation!(a = b op c): `op` names the operator
BinaryOperation(v, op, a, b, c) ==
  LET bv == Load(v, b)
      cv == Load(v, c) IN
  IF bv.tag # "ok" THEN Fail(v, bv)
  ELSE IF cv.tag # "ok" THEN Fail(v, cv)
  ELSE IF op = "%" /\ cv.val = 0 THEN Panic(v)
  ELSE LET wrapped == CASE op = "+" -> WrappingAdd(bv.val, cv.val)
                        [] op = "*" -> WrappingMul(bv.val, cv.val)
                        [] op = "%" -> WrappingRem(bv.val, cv.val)
                        [] op = "&" -> BitAnd(bv.val, cv.val)
                        [] op = "|" -> BitOr(bv.val, cv.val)
       IN SetAndFinish(v, a, wrapped % MAX_VALUE)

-----------------------------------------------------------------------------
(* The opcodes.  `a` is the sequence of operand words of the instruction.    *)

\* 1 => set a b
OpSet(v, a) == SetAndFinish(v, a[1], a[2])

\* 2 => push a
OpPush(v, a) ==
  LET a_value == Load(v, a[1]) IN
  IF a_value.tag # "ok" THEN Fail(v, a_value)
  ELSE Ok([v EXCEPT !.stack = Append(@, a_value.val)])

\* pop taking the oldest element instead of the newest
OpPopOldest(v, a) ==
  IF v.stack # <<>>
  THEN SetAndFinish([v EXCEPT !.stack = Tail(@)], a[1], Head(v.stack))
  ELSE Outcome(v, "pop_empty", 0)

\* pop treating an empty stack as ret does: a halt, not an error
OpPopHaltsOnEmpty(v, a) ==
  IF v.stack # <<>>
  THEN LET tos == v.stack[Len(v.stack)]
           popped == [v EXCEPT !.stack = SubSeq(@, 1, Len(@) - 1)]
       IN SetAndFinish(popped, a[1], tos)
  ELSE Halt(v)

\* 3 => pop a: the top is removed before set() is tried
OpPop(v, a) ==
  IF v.stack # <<>>
  THEN LET tos == v.stack[Len(v.stack)]
           popped == [v EXCEPT !.stack = SubSeq(@, 1, Len(@) - 1)]
       IN SetAndFinish(popped, a[1], tos)
  ELSE Outcome(v, "pop_empty", 0)

\* 4 => eq a b c
OpEq(v, a) == BoolOperationEq(v, a[1], a[2], a[3])

\* 5 => gt a b c
OpGt(v, a) == BoolOperationGt(v, a[1], a[2], a[3])

\* 6 => jmp a
OpJmp(v, a) == Jmp(v, a[1])

\* 7 => jt a b
OpJt(v, a) ==
  LET cond == Load(v, a[1]) IN
  IF cond.tag # "ok" THEN Fail(v, cond)
  ELSE IF cond.val # 0 THEN Jmp(v, a[2]) ELSE Ok(v)

\* jf jumping on a nonzero value, as jt does
OpJfOnNonzero(v, a) ==
  LET cond == Load(v, a[1]) IN
  IF cond.tag # "ok" THEN Fail(v, cond)
  ELSE IF cond.val # 0 THEN Jmp(v, a[2]) ELSE Ok(v)

\* 8 => jf a b
OpJf(v, a) ==
  LET cond == Load(v, a[1]) IN
  IF cond.tag # "ok" THEN Fail(v, cond)
  ELSE IF cond.val = 0 THEN Jmp(v, a[2]) ELSE Ok(v)

\* 9 => add a b c
OpAdd(v, a) == BinaryOperation(v, "+", a[1], a[2], a[3])

\* 10 => mult a b c
OpMult(v, a) == BinaryOperation(v, "*", a[1], a[2], a[3])

\* 11 => mod a b c
OpMod(v, a) == BinaryOperation(v, "%", a[1], a[2], a[3])

\* 12 => and a b c
OpAnd(v, a) == BinaryOperation(v, "&", a[1], a[2], a[3])

\* 13 => or a b c
OpOr(v, a) == BinaryOperation(v, "|", a[1], a[2], a[3])

\* the 16-bit complement, not masked to 15 bits
NotUnmasked(b_value) == BitNot(b_value)

\* (!b_value) & ((1 << INTEGER_SIZE) - 1)
NotValue(b_value) == BitAnd(BitNot(b_value), 2 ^ INTEGER_SIZE - 1)

\* 14 => not a b
OpNot(v, a) ==
  LET b_value == Load(v, a[2]) IN
  IF b_value.tag # "ok" THEN Fail(v, b_value)
  ELSE SetAndFinish(v, a[1], NotValue(b_value.val))

\* 15 => rmem a b: the word read goes through set(), hence through load()
OpRmem(v, a) ==
  LET location == Load(v, a[2]) IN
  IF location.tag # "ok" THEN Fail(v, location)
  ELSE IF location.val >= ADDRESS_SPACE THEN Panic(v)
  ELSE SetAndFinish(v, a[1], MemGet(v.memory, location.val))

\* wmem writing the word its second operand is, not the value it names
OpWmemRawValue(v, a) ==
  LET memory_location == Load(v, a[1])
      b_value == Load(v, a[2]) IN
  IF memory_location.tag # "ok" THEN Fail(v, memory_location)
  ELSE IF b_value.tag # "ok" THEN Fail(v, b_value)
  ELSE IF memory_location.val >= ADDRESS_SPACE THEN Panic(v)
  ELSE Ok([v EXCEPT !.memory = MemPut(@, memory_location.val, a[2])])

\* 16 => wmem a b
OpWmem(v, a) ==
  LET memory_location == Load(v, a[1])
      b_value == Load(v, a[2]) IN
  IF memory_location.tag # "ok" THEN Fail(v, memory_location)
  ELSE IF b_value.tag # "ok" THEN Fail(v, b_value)
  ELSE IF memory_location.val >= ADDRESS_SPACE THEN Panic(v)
  ELSE Ok([v EXCEPT !.memory = MemPut(@, memory_location.val, b_value.val)])

\* 17 => call a: self.stack.push(self.pc as u16), then jmp!(a)
OpCall(v, a) == Jmp([v EXCEPT !.stack = Append(@, v.pc % U16_MOD)], a[1])

\* ret treating an empty stack as pop does: an error, not a halt
OpRetFailsOnEmpty(v, a) ==
  IF v.stack # <<>>
  THEN LET tos == v.stack[Len(v.stack)]
           popped == [v EXCEPT !.stack = SubSeq(@, 1, Len(@) - 1)]
       IN Jmp(popped, tos)
  ELSE Outcome(v, "pop_empty", 0)

\* 18 => ret: the top is removed before jmp!() is tried
OpRet(v, a) ==
  IF v.stack # <<>>
  THEN LET tos == v.stack[Len(v.stack)]
           popped == [v EXCEPT !.stack = SubSeq(@, 1, Len(@) - 1)]
       IN Jmp(popped, tos)
  ELSE Halt(v)

\* `x as u8 as char` printed with "{}": the UTF-8 encoding of the code point
Utf8(byte) ==
  IF byte < 128 THEN <<byte>> ELSE <<192 + (byte \div 64), 128 + (byte % 64)>>

\* 19 => out a
OpOut(v, a) ==
  LET a_value == Load(v, a[1]) IN
  IF a_value.tag # "ok" THEN Fail(v, a_value)
  ELSE [Ok(v) EXCEPT !.out = Utf8(a_value.val % 256)]

\* in giving up while one byte is still unread
OpInHaltsEarly(v, a, rest) ==
  IF Len(rest) > 1 THEN [SetAndFinish(v, a[1], rest[1]) EXCEPT !.nread = 1]
  ELSE Halt(v)

\* 20 => in a: read_exact of one byte of stdin; `rest` is what stdin still holds
OpIn(v, a, rest) ==
  IF rest # <<>>
  THEN [SetAndFinish(v, a[1], rest[1]) EXCEPT !.nread = 1]
  ELSE Halt(v)

\* the number of next_argument() calls of each opcode's arm
Arity(opcode) ==
  CASE opcode \in {0, 18, 21} -> 0
    [] opcode \in {2, 3, 6, 17, 19, 20} -> 1
    [] opcode \in {1, 7, 8, 14, 15, 16} -> 2
    [] opcode \in {4, 5, 9, 10, 11, 12, 13} -> 3
    [] OTHER -> 0

\* the last arm reporting where the word was found in place of the word
UnknownOpcodeLocation(v, opcode) == Outcome(v, "unknown_opcode", v.pc - 1)

\* the last arm of the match: the word is no opcode
UnknownOpcode(v, opcode) == Outcome(v, "unknown_opcode", opcode)

\* the match on the opcode, the operands read
Execute(opcode, v, a, rest) ==
  CASE opcode = 0 -> Halt(v)
    [] opcode = 1 -> OpSet(v, a)
    [] opcode = 2 -> OpPush(v, a)
    [] opcode = 3 -> OpPop(v, a)
    [] opcode = 4 -> OpEq(v, a)
    [] opcode = 5 -> OpGt(v, a)
    [] opcode = 6 -> OpJmp(v, a)
    [] opcode = 7 -> OpJt(v, a)
    [] opcode = 8 -> OpJf(v, a)
    [] opcode = 9 -> OpAdd(v, a)
    [] opcode = 10 -> OpMult(v, a)
    [] opcode = 11 -> OpMod(v, a)
    [] opcode = 12 -> OpAnd(v, a)
    [] opcode = 13 -> OpOr(v, a)
    [] opcode = 14 -> OpNot(v, a)
    [] opcode = 15 -> OpRmem(v, a)
    [] opcode = 16 -> OpWmem(v, a)
    [] opcode = 17 -> OpCall(v, a)
    [] opcode = 18 -> OpRet(v, a)
    [] opcode = 19 -> OpOut(v, a)
    [] opcode = 20 -> OpIn(v, a, rest)
    [] opcode = 21 -> Ok(v)
    [] OTHER -> UnknownOpcode(v, opcode)

\* VM::cycle on the VM v with `rest` left on stdin
Cycle(v, rest) ==
  IF v.pc >= ADDRESS_SPACE THEN Panic(v)
  ELSE LET opcode == MemGet(v.memory, v.pc)
           fetched == NextArguments([v EXCEPT !.pc = @ + 1], Arity(opcode))
       IN IF fetched.panic THEN Panic(fetched.vm)
          ELSE Execute(opcode, fetched.vm, fetched.args, rest)

-----------------------------------------------------------------------------
(* Snapshots: the serde data model of impl Serialize / impl Deserialize.      *)
(* A serialized VM is the sequence of its fields, in the order they are       *)
(* written; a Vec<u16> is its length and its elements.  The memory vector is  *)
(* kept sparsely, like the array it comes from.                               *)

\* u16slice_to_vec!(self.memory)
MemoryVec(m) == [len |-> ADDRESS_SPACE, nonzero |-> m]

\* u16slice_to_vec!(self.registers)
RegistersVec(regs) == [i \in 1 .. REGISTER_COUNT |-> regs[i - 1]]

\* impl Serialize for VM
Serialize(v) ==
  << [key |-> "memory", value |-> MemoryVec(v.memory)],
     [key |-> "registers", value |-> RegistersVec(v.registers)],
     [key |-> "stack", value |-> v.stack],
     [key |-> "pc", value |-> v.pc] >>

\* Deserialize with the stack field read but not kept
DeserializeStackLost(fields) ==
  LET memory_values == fields[1].value
      registers_values == fields[2].value
      pc == fields[4].value
  IN [panic |-> FALSE,
      vm |-> [memory |-> memory_values.nonzero,
              registers |-> [r \in 0 .. REGISTER_COUNT - 1 |-> registers_values[r + 1]],
              stack |-> <<>>,
              pc |-> pc]]

\* VMVisitor::visit_seq: the fields by position; copy_from_slice panics on a
\* vector of another length than the array
Deserialize(fields) ==
  LET memory_values == fields[1].value
      registers_values == fields[2].value
      stack == fields[3].value
      pc == fields[4].value
  IN IF memory_values.len # ADDRESS_SPACE \/ Len(registers_values) # REGISTER_COUNT
     THEN [panic |-> TRUE, vm |-> New]
     ELSE [panic |-> FALSE,
           vm |-> [memory |-> memory_values.nonzero,
                   registers |-> [r \in 0 .. REGISTER_COUNT - 1 |-> registers_values[r + 1]],
                   stack |-> stack,
                   pc |-> pc]]

-----------------------------------------------------------------------------
(* The guest programs of the runs.  An image is a short program at address 0  *)
(* (at most MaxInstr instructions of Pool), zero words after it, and a fixed  *)
(* library of routines and data further up.                                   *)

Reg(n) == 32768 + n

Pool ==
  { <<0>>,                              \* halt
    <<1, Reg(0), 5>>,                   \* set r0 5
    <<1, Reg(1), Reg(0)>>,              \* set r1 r0
    <<1, 5, 7>>,                        \* set into a literal
    <<1, Reg(0), 32776>>,               \* set from an invalid operand
    <<1, 40000, 32776>>,                \* set: both operands invalid
    <<2, 7>>,                           \* push 7
    <<2, Reg(0)>>,                      \* push r0
    <<2, 65535>>,                       \* push an invalid operand
    <<3, Reg(1)>>,                      \* pop r1
    <<3, 9>>,                           \* pop into a literal
    <<4, Reg(1), Reg(0), 5>>,           \* eq r1 r0 5
    <<5, Reg(1), Reg(0), 3>>,           \* gt r1 r0 3
    <<6, 32766>>,                       \* jmp to the call at the top of memory
    <<6, 32767>>,                       \* jmp to the last word of memory
    <<7, Reg(0), 160>>,                 \* jt r0 160
    <<8, Reg(0), 120>>,                 \* jf r0 120
    <<9, Reg(0), 32767, 1>>,            \* add r0 32767 1
    <<9, Reg(0), Reg(0), 32767>>,       \* add r0 r0 32767
    <<10, Reg(0), 20000, 20000>>,       \* mult r0 20000 20000
    <<10, Reg(1), Reg(0), 32767>>,      \* mult r1 r0 32767
    <<11, Reg(1), 32767, Reg(0)>>,      \* mod r1 32767 r0
    <<11, Reg(0), 12345, 100>>,         \* mod r0 12345 100
    <<12, Reg(1), Reg(0), 21845>>,      \* and r1 r0 21845
    <<13, Reg(1), Reg(0), 10922>>,      \* or r1 r0 10922
    <<14, Reg(0), Reg(0)>>,             \* not r0 r0
    <<14, Reg(1), 21845>>,              \* not r1 21845
    <<15, Reg(0), 200>>,                \* rmem r0 200
    <<15, Reg(0), 201>>,                \* rmem r0 201
    <<16, 1, Reg(0)>>,                  \* wmem 1 r0
    <<16, Reg(0), 21>>,                 \* wmem r0 21
    <<17, 100>>,                        \* call 100
    <<17, 120>>,                        \* call 120
    <<17, 140>>,                        \* call 140
    <<17, 160>>,                        \* call 160
    <<17, 180>>,                        \* call 180
    <<18>>,                             \* ret
    <<19, 65>>,                         \* out 'A'
    <<19, Reg(0)>>,                     \* out r0
    <<19, 200>>,                        \* out of a literal above 127
    <<20, Reg(0)>>,                     \* in r0
    <<21>>,                             \* noop
    <<22>>,                             \* not an opcode
    <<65535>> }                         \* not an opcode

\* the programs of at most n instructions
Programs(n) == UNION {[1 .. k -> Pool] : k \in 0 .. n}

RECURSIVE Flatten(_)
\* the words of a program, one instruction after the other
Flatten(p) == IF p = <<>> THEN <<>> ELSE Head(p) \o Flatten(Tail(p))

\* words placed from address `at` on
Block(at, words) == [a \in at .. at + Len(words) - 1 |-> words[a - at + 1]]

LibRet == Block(100, <<18>>)

\* push 7; push 9; pop r0; pop r1; ret
LibStack == Block(120, <<2, 7, 2, 9, 3, Reg(0), 3, Reg(1), 18>>)

\* in r0; out r0; in r1; out r1; ret
LibEcho == Block(140, <<20, Reg(0), 19, Reg(0), 20, Reg(1), 19, Reg(1), 18>>)

\* set r0 32767; add r1 r0 1; mult r2 r0 r0; mod r3 r0 7; not r4 r0; ret
LibArith ==
  Block(160, <<1, Reg(0), 32767, 9, Reg(1), Reg(0), 1, 10, Reg(2), Reg(0), Reg(0),
               11, Reg(3), Reg(0), 7, 14, Reg(4), Reg(0), 18>>)

\* data: a word that names a register, a word that names nothing
LibData == Block(200, <<32769, 40000>>)

\* in r0, four times; ret
LibRead == Block(180, <<20, Reg(0), 20, Reg(0), 20, Reg(0), 20, Reg(0), 18>>)

\* ret, at the address whose number is the opcode of noop
LibHop == Block(21, <<18>>)

\* call 21, the last instruction memory can hold; its operand, run as an
\* opcode, is a noop in the last word of memory
LibTop == Block(32766, <<17, 21>>)

\* b"What do you do?"
Prompt == <<87, 104, 97, 116, 32, 100, 111, 32, 121, 111, 117, 32, 100, 111, 63>>

RECURSIVE OutEach(_)
\* the words of one out instruction for each byte
OutEach(bytes) == IF bytes = <<>> THEN <<>> ELSE <<19, Head(bytes)>> \o OutEach(Tail(bytes))

\* out of each byte of the prompt; ret
LibPrompt == Block(220, OutEach(Prompt) \o <<18>>)

Library ==
  LibHop @@ LibRet @@ LibStack @@ LibEcho @@ LibArith @@ LibRead @@ LibData @@ LibPrompt
    @@ LibTop

\* a word as the two bytes of its chunk in the image file: <<low, high>>
Chunk(w) == <<w % 256, w \div 256>>

\* the image file of program p: a full image of ADDRESS_SPACE words
Image(p) ==
  LET words == Block(0, Flatten(p)) @@ Library
  IN [chunks |-> ADDRESS_SPACE,
      nonzero |-> [i \in {a \in DOMAIN words : words[a] # 0} |-> Chunk(words[i])]]

\* what stdin holds
Inputs == { <<>>, <<55, 13, 10>> }

-----------------------------------------------------------------------------
(* The state machine *)

Call(op, args, pre, r) ==
  [op |-> op, args |-> args, pre |-> pre, tag |-> r.tag, val |-> r.val, out |-> r.out,
   nread |-> r.nread]

NoCopy == [present |-> FALSE]

\* no Room::parse() call has been made
NoParse == [at |-> "idle"]

\* no solver has been started
NoSolver == [at |-> "idle"]

InitWith(programs) ==
  /\ \E p \in programs : vm = LoadProgram(New, Image(p))
  /\ input \in Inputs
  /\ inpos = 0
  /\ output = <<>>
  /\ trace = <<>>
  /\ restored = NoCopy
  /\ room = NoParse
  /\ solver = NoSolver

Init == InitWith(Programs(MaxInstr))

\* what stdin still holds for a reader at cursor `pos`
Rest(pos) == SubSeq(input, pos + 1, Len(input))

\* the process is alive (no panic has ended it) and the driver steps on
Running ==
  /\ Len(trace) < MaxSteps
  /\ trace # <<>> => trace[Len(trace)].tag # "panic"

\* the driver calls vm.cycle()
Step ==
  /\ Running
  /\ ~ restored.present
  /\ LET r == Cycle(vm, Rest(inpos)) IN
       /\ vm' = r.vm
       /\ inpos' = inpos + r.nread
       /\ output' = output \o r.out
       /\ trace' = Append(trace, Call("cycle", <<>>, vm, r))
  /\ UNCHANGED <<input, restored, room, solver>>

Next == Step

Spec == Init /\ [][Next]_vars

-----------------------------------------------------------------------------
(* Runs that stop the VM, save it, load the snapshot and go on with both: the *)
(* VM that was never stopped and the restored one, each reading the same      *)
(* remaining stdin and writing its own stdout.                                *)

\* save the snapshot, then load it
SaveLoad ==
  /\ Running
  /\ ~ restored.present
  /\ LET loaded == Deserialize(Serialize(vm)) IN
       restored' = [present |-> TRUE,
                    snapshot |-> Serialize(vm),
                    panic |-> loaded.panic,
                    vm |-> loaded.vm,
                    inpos |-> inpos,
                    output |-> <<>>,
                    trace |-> <<>>,
                    base |-> [steps |-> Len(trace), output |-> Len(output), inpos |-> inpos]]
  /\ UNCHANGED <<vm, input, inpos, output, trace, room, solver>>

\* one cycle() of each VM
StepBoth ==
  /\ Running
  /\ restored.present
  /\ ~ restored.panic
  /\ LET r == Cycle(vm, Rest(inpos))
         q == Cycle(restored.vm, Rest(restored.inpos))
     IN /\ vm' = r.vm
        /\ inpos' = inpos + r.nread
        /\ output' = output \o r.out
        /\ trace' = Append(trace, Call("cycle", <<>>, vm, r))
        /\ restored' = [restored EXCEPT
                          !.vm = q.vm,
                          !.inpos = @ + q.nread,
                          !.output = @ \o q.out,
                          !.trace = Append(@, Call("cycle", <<>>, restored.vm, q))]
  /\ UNCHANGED <<input, room, solver>>

InitSnap == InitWith(Programs(MaxInstrSnap))

NextSnap == Step \/ SaveLoad \/ StepBoth

SpecSnap == InitSnap /\ [][NextSnap]_vars

-----------------------------------------------------------------------------
(* Runs that call the two addressing helpers directly, on operands drawn from *)
(* both sides of every boundary of the operand ranges.                        *)

LoadOperands == {0, 5, 32767, 32768, 32775, 32776, 65535}

StoreOperands == {0, 32767, 32768, 32769, 32775, 32776, 65535}

\* vm.load(address)
CallLoad ==
  /\ Len(trace) < MaxCalls
  /\ \E address \in LoadOperands :
       LET r == Load(vm, address) IN
       trace' = Append(trace, Call("load", <<address>>, vm,
                                   [tag |-> r.tag, val |-> r.val, out |-> <<>>, nread |-> 0]))
  /\ UNCHANGED <<vm, input, inpos, output, restored, room, solver>>

\* vm.set(destination_address, source_address)
CallSet ==
  /\ Len(trace) < MaxCalls
  /\ \E destination_address \in StoreOperands, source_address \in LoadOperands :
       LET r == Set(vm, destination_address, source_address) IN
       /\ vm' = r.vm
       /\ trace' = Append(trace, Call("set", <<destination_address, source_address>>, vm,
                                      [tag |-> r.tag, val |-> r.val, out |-> <<>>, nread |-> 0]))
  /\ UNCHANGED <<input, inpos, output, restored, room, solver>>

InitHelpers ==
  /\ vm = LoadProgram(New, Image(<<>>))
  /\ input = <<>>
  /\ inpos = 0
  /\ output = <<>>
  /\ trace = <<>>
  /\ restored = NoCopy
  /\ room = NoParse
  /\ solver = NoSolver

NextHelpers == CallLoad \/ CallSet

SpecHelpers == InitHelpers /\ [][NextHelpers]_vars

-----------------------------------------------------------------------------
(* Construction of a VM from an image file: VM::new(), then                   *)
(* load_program_from_file() on the bytes of the file.                         *)

\* the bytes an image file is made of
ImageBytes == {0, 1, 21, 255}

\* the image files: every byte sequence of at most MaxImageBytes bytes
ImageFiles == UNION {[1 .. k -> ImageBytes] : k \in 0 .. MaxImageBytes}

InitImage ==
  /\ vm = New
  /\ input = <<>>
  /\ inpos = 0
  /\ output = <<>>
  /\ trace = <<>>
  /\ restored = NoCopy
  /\ room = NoParse
  /\ solver = NoSolver

\* vm.load_program_from_file(path), the file holding `bytes`
CallLoadProgram ==
  /\ trace = <<>>
  /\ \E bytes \in ImageFiles :
       /\ vm' = LoadProgram(vm, ExactChunks(bytes))
       /\ trace' = Append(trace, Call("load_program_from_file", <<bytes>>, vm,
                                      [tag |-> "ok", val |-> 0, out |-> <<>>, nread |-> 0]))
  /\ UNCHANGED <<input, inpos, output, restored, room, solver>>

NextImage == CallLoadProgram

SpecImage == InitImage /\ [][NextImage]_vars

-----------------------------------------------------------------------------
(* The driver: main() loads a program and calls run_until_prompt(), which     *)
(* steps the VM until the output since the call ends with the prompt.  The VM  *)
(* steps as VM::cycle does, Ok(false) being the Halt the driver looks for.     *)

\* the instructions of the driver's programs: one that prints the prompt and
\* a wmem whose address operand does not resolve, besides the others
DriverPool == Pool \cup { <<17, 220>>, <<16, 65535, 1>> }

DriverPrograms == UNION {[1 .. k -> DriverPool] : k \in 0 .. MaxInstrDriver}

\* vm.output.position() when main() first calls run_until_prompt(): that of a
\* new Cursor
EntryPosition == 0

\* vm.output.get_ref()[pos..]
OutputFrom(pos, out) == SubSeq(out, pos + 1, Len(out))

\* bytes.ends_with(suffix)
EndsWith(bytes, suffix) ==
  /\ Len(bytes) >= Len(suffix)
  /\ SubSeq(bytes, Len(bytes) - Len(suffix) + 1, Len(bytes)) = suffix

\* u8::is_ascii_whitespace
IsAsciiWhitespace(ch) == ch \in {9, 10, 12, 13, 32}

\* bytes.iter().position(|ch| !ch.is_ascii_whitespace()).unwrap_or(0)
FirstNonWsOffset(bytes) ==
  LET found == {k \in 1 .. Len(bytes) : ~ IsAsciiWhitespace(bytes[k])}
  IN IF found = {} THEN 0
     ELSE (CHOOSE k \in found : \A other \in found : k <= other) - 1

\* the look at the instruction about to run: a wmem is noted with the values
\* of its two operands.  Indexing memory past its end panics; a load that
\* fails is returned by `?`.
Peek(v) ==
  IF v.pc >= ADDRESS_SPACE THEN [tag |-> "panic", val |-> 0, writes |-> <<>>]
  ELSE IF MemGet(v.memory, v.pc) # 16 THEN [tag |-> "ok", val |-> 0, writes |-> <<>>]
  ELSE IF v.pc + 1 >= ADDRESS_SPACE THEN [tag |-> "panic", val |-> 0, writes |-> <<>>]
  ELSE LET dest == Load(v, MemGet(v.memory, v.pc + 1)) IN
       IF dest.tag # "ok" THEN [tag |-> dest.tag, val |-> dest.val, writes |-> <<>>]
       ELSE IF v.pc + 2 >= ADDRESS_SPACE THEN [tag |-> "panic", val |-> 0, writes |-> <<>>]
       ELSE LET src == Load(v, MemGet(v.memory, v.pc + 2)) IN
            IF src.tag # "ok" THEN [tag |-> src.tag, val |-> src.val, writes |-> <<>>]
            ELSE [tag |-> "ok", val |-> 0, writes |-> <<dest.val, src.val>>]

\* a loop that goes on after an error of the VM
AfterCycleRetry(r) ==
  IF r.tag = "halt" THEN "break"
  ELSE IF r.tag = "panic" THEN "panic"
  ELSE "continue"

\* the match on the result of vm.cycle()
AfterCycle(r) ==
  IF r.tag = "ok" THEN "continue"
  ELSE IF r.tag = "halt" THEN "break"
  ELSE IF r.tag = "panic" THEN "panic"
  ELSE "bail"

\* the code after the loop: the output position moves to the first byte that
\* is not whitespace, and Ok(()) is returned
ReturnOk(v, out) ==
  Call("return", <<>>, v,
       Outcome(v, "ok", EntryPosition + FirstNonWsOffset(OutputFrom(EntryPosition, out))))

\* bail!(err), or the `?` of a load that failed
ReturnErr(v, tag, val) == Call("return", <<>>, v, Outcome(v, tag, val))

\* run_until_prompt() is inside its loop
InLoop ==
  IF trace = <<>> THEN TRUE
  ELSE trace[Len(trace)].op = "cycle" /\ trace[Len(trace)].tag # "panic"

InitDriver == InitWith(DriverPrograms)

\* one iteration of the while loop
DriverIterate ==
  /\ InLoop
  /\ Len(trace) < MaxDriverSteps
  /\ ~ EndsWith(OutputFrom(EntryPosition, output), Prompt)
  /\ LET peek == Peek(vm) IN
     IF peek.tag = "panic"
     THEN /\ trace' = Append(trace, Call("peek", <<>>, vm, Panic(vm)))
          /\ UNCHANGED <<vm, inpos, output>>
     ELSE IF peek.tag # "ok"
     THEN /\ trace' = Append(trace, ReturnErr(vm, peek.tag, peek.val))
          /\ UNCHANGED <<vm, inpos, output>>
     ELSE LET r == Cycle(vm, Rest(inpos))
              step == Call("cycle", peek.writes, vm, r)
              todo == AfterCycle(r)
          IN /\ vm' = r.vm
             /\ inpos' = inpos + r.nread
             /\ output' = output \o r.out
             /\ trace' = CASE todo = "break" ->
                                Append(Append(trace, step), ReturnOk(r.vm, output \o r.out))
                            [] todo = "bail" ->
                                Append(Append(trace, step), ReturnErr(r.vm, r.tag, r.val))
                            [] OTHER -> Append(trace, step)
  /\ UNCHANGED <<input, restored, room, solver>>

\* the loop ends on the prompt
DriverReturn ==
  /\ InLoop
  /\ EndsWith(OutputFrom(EntryPosition, output), Prompt)
  /\ trace' = Append(trace, ReturnOk(vm, output))
  /\ UNCHANGED <<vm, input, inpos, output, restored, room, solver>>

NextDriver == DriverIterate \/ DriverReturn

SpecDriver == InitDriver /\ [][NextDriver]_vars

-----------------------------------------------------------------------------
\* the programs that read: four in steps in a routine, two echoed bytes, two
\* in steps with a noop between them
ReadingPrograms ==
  { << <<17, 180>> >>, << <<17, 140>> >>, << <<20, Reg(0)>>, <<21>>, <<20, Reg(1)>> >> }

-----------------------------------------------------------------------------
(* Two VMs in one process: the second is a copy of the first (saved and       *)
(* loaded), and the driver steps now one, now the other.  Both read the       *)
(* process's stdin, at the one cursor `inpos`, and print to its stdout,       *)
(* `output`.                                                                  *)

\* the process is alive and the driver steps on
RunningBoth ==
  /\ restored.present
  /\ ~ restored.panic
  /\ Len(trace) + Len(restored.trace) < MaxSteps
  /\ trace # <<>> => trace[Len(trace)].tag # "panic"
  /\ restored.trace # <<>> => restored.trace[Len(restored.trace)].tag # "panic"

\* the driver calls cycle() of the first VM
StepOriginal ==
  /\ RunningBoth
  /\ LET r == Cycle(vm, Rest(inpos)) IN
       /\ vm' = r.vm
       /\ inpos' = inpos + r.nread
       /\ output' = output \o r.out
       /\ trace' = Append(trace, Call("cycle", <<>>, vm, r))
  /\ UNCHANGED <<input, restored, room, solver>>

\* the driver calls cycle() of the copy
StepCopy ==
  /\ RunningBoth
  /\ LET q == Cycle(restored.vm, Rest(inpos)) IN
       /\ inpos' = inpos + q.nread
       /\ output' = output \o q.out
       /\ restored' = [restored EXCEPT
                         !.vm = q.vm,
                         !.trace = Append(@, Call("cycle", <<>>, restored.vm, q))]
  /\ UNCHANGED <<vm, input, trace, room, solver>>

NextCopies == Step \/ SaveLoad \/ StepOriginal \/ StepCopy

SpecCopies == InitSnap /\ [][NextCopies]_vars

-----------------------------------------------------------------------------
(* Room::parse() on the output buffer, one step per read of the buffer: the   *)
(* read and the code that follows it up to the next read.  Strings are the    *)
(* sequences of their bytes.                                                  *)

\* bytes.starts_with(prefix)
StartsWith(bytes, prefix) ==
  /\ Len(bytes) >= Len(prefix)
  /\ SubSeq(bytes, 1, Len(prefix)) = prefix

\* b.read_until(delim, ..) from the cursor `pos`: the bytes up to the first
\* `delim`, which is included, or up to the end of the buffer
ReadUntil(buf, pos, delim) ==
  LET hits == {k \in pos + 1 .. Len(buf) : buf[k] = delim}
      stop == IF hits = {} THEN Len(buf)
              ELSE CHOOSE k \in hits : \A other \in hits : k <= other
  IN [bytes |-> SubSeq(buf, pos + 1, stop), pos |-> stop]

\* b.read_line(..): through the next '\n'
ReadLine(buf, pos) == ReadUntil(buf, pos, 10)

\* the function ends: Ok((prelude, None)), Ok((prelude, Some(this))), an Err,
\* or a panic
Finish(r, result) == [r EXCEPT !.at = "done", !.result = result]

\* the top of the loop over the lists, with the header line just read
AfterHeader(r) ==
  IF r.header = Prompt THEN Finish(r, "ok_some")
  ELSE IF StartsWith(r.header, <<84, 104, 101, 114, 101>>) THEN [r EXCEPT !.at = "list", !.list = "exits"]
  ELSE IF StartsWith(r.header, <<84, 104, 105, 110, 103, 115>>) THEN [r EXCEPT !.at = "list", !.list = "items"]
  ELSE Finish(r, "err")

\* the prelude and the title line
ParsePrelude(r, buf) ==
  LET p == ReadUntil(buf, r.pos, 61)
      prelude == IF p.bytes # <<>> /\ p.bytes[Len(p.bytes)] = 61
                 THEN SubSeq(p.bytes, 1, Len(p.bytes) - 1)
                 ELSE p.bytes
      t == ReadLine(buf, p.pos)
      read == [r EXCEPT !.pos = t.pos, !.prelude = prelude, !.title = t.bytes]
  IN IF Len(t.bytes) = 0 THEN Finish(read, "ok_none")
     ELSE IF r.debug /\ ~ (StartsWith(t.bytes, <<61, 32>>) /\ EndsWith(t.bytes, <<32, 61, 61, 10>>))
     THEN Finish(read, "panic")
     ELSE IF Len(t.bytes) < 2 \/ Len(t.bytes) - 2 < 4 THEN Finish(read, "panic")
     ELSE [read EXCEPT !.at = "description",
                       !.title = SubSeq(t.bytes, 3, Len(t.bytes) - 4)]

\* one turn of the loop over the description lines
ParseDescription(r, buf) ==
  LET h == ReadLine(buf, r.pos)
      read == [r EXCEPT !.pos = h.pos, !.header = h.bytes]
  IN IF h.bytes = Prompt \/ EndsWith(h.bytes, <<58, 10>>)
     THEN AfterHeader([read EXCEPT !.description =
                         IF EndsWith(@, <<10, 10>>) THEN SubSeq(@, 1, Len(@) - 2) ELSE @])
     ELSE [read EXCEPT !.description = @ \o h.bytes]

\* one turn of the loop over the lines of a list
ParseItem(r, buf) ==
  LET it == ReadLine(buf, r.pos)
      read == [r EXCEPT !.pos = it.pos]
  IN IF it.bytes = <<10>> THEN [read EXCEPT !.at = "header"]
     ELSE IF Len(it.bytes) < 2 \/ Len(it.bytes) - 2 < 1 THEN Finish(read, "panic")
     ELSE LET item == SubSeq(it.bytes, 3, Len(it.bytes) - 1) IN
          IF r.list = "exits" THEN [read EXCEPT !.exits = Append(@, item)]
          ELSE [read EXCEPT !.items = Append(@, item)]

\* the header line after a list
ParseHeader(r, buf) ==
  LET h == ReadLine(buf, r.pos) IN AfterHeader([r EXCEPT !.pos = h.pos, !.header = h.bytes])

\* the next step of the call
ParseStep(r, buf) ==
  CASE r.at = "start" -> ParsePrelude(r, buf)
    [] r.at = "description" -> ParseDescription(r, buf)
    [] r.at = "list" -> ParseItem(r, buf)
    [] r.at = "header" -> ParseHeader(r, buf)
    [] OTHER -> r

\* the output of one room, as the game prints it
RoomText ==
  <<104, 105, 10, 61, 61, 32, 65, 32, 61, 61, 10, 100, 10, 10, 84, 104,
    105, 110, 103, 115, 58, 10, 45, 32, 107, 10, 10, 84, 104, 101, 114, 101,
    58, 10, 45, 32, 110, 10, 10, 87, 104, 97, 116, 32, 100, 111, 32, 121,
    111, 117, 32, 100, 111, 63>>

\* the buffers: the output cut off after any byte, and with a newline after
\* the prompt
Buffers ==
  {SubSeq(RoomText, 1, n) : n \in 0 .. Len(RoomText)} \cup {RoomText \o <<10>>}

\* Room::parse(b) is called on a buffer with its cursor anywhere, in a debug
\* or a release build
InitParse ==
  /\ vm = New
  /\ input = <<>>
  /\ inpos = 0
  /\ output \in Buffers
  /\ trace = <<>>
  /\ restored = NoCopy
  /\ \E pos \in 0 .. Len(RoomText) + 1, debug \in BOOLEAN :
       /\ pos <= Len(output)
       /\ room = [at |-> "start", pos |-> pos, debug |-> debug, prelude |-> <<>>,
                  title |-> <<>>, header |-> <<>>, description |-> <<>>,
                  items |-> <<>>, exits |-> <<>>, list |-> "none", result |-> "none"]
  /\ solver = NoSolver

Parse ==
  /\ room.at \in {"start", "description", "list", "header"}
  /\ room' = ParseStep(room, output)
  /\ UNCHANGED <<vm, input, inpos, output, trace, restored, solver>>

NextParse == Parse

SpecParse == InitParse /\ [][NextParse]_vars

-----------------------------------------------------------------------------
(* Reading the trace *)

\* the last call made
Last == trace[Len(trace)]

\* the VM as call number i left it
Post(i) == IF i = Len(trace) THEN vm ELSE trace[i + 1].pre

\* call number i is a cycle() that found opcode `opcode` at pc
IsStepOf(i, opcode) ==
  /\ trace[i].op = "cycle"
  /\ trace[i].pre.pc < ADDRESS_SPACE
  /\ MemGet(trace[i].pre.memory, trace[i].pre.pc) = opcode

\* operand number k of the instruction call number i ran
Operand(i, k) == MemGet(trace[i].pre.memory, trace[i].pre.pc + k)

\* the instruction of call number i lies inside memory with its n operands
Whole(i, n) == trace[i].pre.pc + n < ADDRESS_SPACE

\* the value operand number k had when call number i began (it resolves)
Resolved(i, k) == Load(trace[i].pre, Operand(i, k)).val

Resolves(i, k) == Load(trace[i].pre, Operand(i, k)).tag = "ok"

IsRegister(w) == w >= 32768 /\ w <= 32775

\* the errors cycle() returns as Err
ErrorTags == {"invalid_load", "invalid_store", "pop_empty", "unknown_opcode"}

-----------------------------------------------------------------------------
(* C1..C10 *)

\* C1: a cycle that returns an error (invalid load, invalid store, pop from an
\* empty stack, unknown opcode) leaves pc where it was before the cycle.
C1_PcRolledBack ==
  \A i \in 1 .. Len(trace) :
    (trace[i].op = "cycle" /\ trace[i].tag \in ErrorTags) => Post(i).pc = trace[i].pre.pc

\* the results (outcome and bytes printed) of a sequence of calls
Results(calls) == [i \in 1 .. Len(calls) |-> [tag |-> calls[i].tag, val |-> calls[i].val, out |-> calls[i].out]]

\* C2: a VM loaded from a snapshot of a running VM has the memory, registers,
\* stack and pc of that VM, and from then on every cycle of the two, on the same
\* remaining input, returns the same result, prints the same bytes and leaves
\* the two VMs equal.
C2_SnapshotRoundTrip ==
  restored.present =>
    /\ ~ restored.panic
    /\ restored.vm = vm
    /\ restored.inpos = inpos
    /\ restored.output = SubSeq(output, restored.base.output + 1, Len(output))
    /\ Results(restored.trace) = Results(SubSeq(trace, restored.base.steps + 1, Len(trace)))

\* a snapshot taken in the middle of a routine (the return address on the
\* stack), after which both VMs read input and printed it
C2_Witness ==
  /\ restored.present
  /\ restored.base.steps >= 1
  /\ Len(restored.trace) >= 2
  /\ restored.trace[1].pre.stack # <<>>
  /\ restored.inpos > restored.base.inpos
  /\ restored.output # <<>>

\* C3: load(v) is v for v in 0..32767, the register's value for v in
\* 32768..32775 and an invalid-load error for v in 32776..65535, and changes
\* nothing of the VM.
C3_LoadTotal ==
  \A i \in 1 .. Len(trace) :
    trace[i].op = "load" =>
      LET v == trace[i].args[1] IN
      /\ v <= 32767 => trace[i].tag = "ok" /\ trace[i].val = v
      /\ (v >= 32768 /\ v <= 32775) =>
           trace[i].tag = "ok" /\ trace[i].val = trace[i].pre.registers[v - 32768]
      /\ v >= 32776 => trace[i].tag = "invalid_load" /\ trace[i].val = v
      /\ Post(i) = trace[i].pre

\* load(32775) of a register that an earlier set() made 32767
C3_Witness ==
  /\ trace # <<>>
  /\ Last.op = "load"
  /\ Last.args = <<32775>>
  /\ Last.tag = "ok"
  /\ Last.val = 32767

\* C4 as stated: set(d, s) with d outside 32768..32775 fails with an
\* invalid-store error, whatever s is, and changes no register; with d inside
\* and s loadable it makes register d - 32768 the value of load(s) and changes
\* no other register.
C4_SetAsStated ==
  \A i \in 1 .. Len(trace) :
    trace[i].op = "set" =>
      LET d == trace[i].args[1]
          s == trace[i].args[2]
          source == Load(trace[i].pre, s)
      IN /\ ~ IsRegister(d) =>
              /\ trace[i].tag = "invalid_store"
              /\ Post(i).registers = trace[i].pre.registers
         /\ (IsRegister(d) /\ source.tag = "ok") =>
              /\ trace[i].tag = "ok"
              /\ Post(i).registers = [trace[i].pre.registers EXCEPT ![d - 32768] = source.val]

\* C4, amended: set(d, s) with s not loadable fails with the invalid-load error
\* of s, whatever d is; with s loadable and d outside 32768..32775 it fails with
\* an invalid-store error; both failures change no register.  With s loadable
\* and d inside, register d - 32768 becomes the value load(s) had, and no other
\* register changes.
C4_SetSourceFirst ==
  \A i \in 1 .. Len(trace) :
    trace[i].op = "set" =>
      LET d == trace[i].args[1]
          s == trace[i].args[2]
          before == trace[i].pre.registers
      IN /\ s >= 32776 =>
              /\ trace[i].tag = "invalid_load" /\ trace[i].val = s
              /\ Post(i).registers = before
         /\ (s <= 32775 /\ ~ IsRegister(d)) =>
              /\ trace[i].tag = "invalid_store" /\ trace[i].val = d
              /\ Post(i).registers = before
         /\ (s <= 32775 /\ IsRegister(d)) =>
              /\ trace[i].tag = "ok"
              /\ Post(i).registers[d - 32768] = (IF s <= 32767 THEN s ELSE before[s - 32768])
              /\ \A r \in 0 .. REGISTER_COUNT - 1 :
                   r # d - 32768 => Post(i).registers[r] = before[r]
         /\ Post(i).memory = trace[i].pre.memory
         /\ Post(i).stack = trace[i].pre.stack
         /\ Post(i).pc = trace[i].pre.pc

\* set(32769, 32775) copying a register that an earlier set() made 5
C4_Witness ==
  /\ Len(trace) = 2
  /\ Last.op = "set"
  /\ Last.args = <<32769, 32775>>
  /\ Last.tag = "ok"
  /\ vm.registers[1] = 5
  /\ vm.registers[7] = 5

\* C5: an add step stores (b + c) mod 32768 and a mult step (b * c) mod 32768
\* in its destination register, b and c being the values of its operands
\* (in 0..32767) and the sum and the product the exact integers.
C5_AddMultExact ==
  \A i \in 1 .. Len(trace) :
    ( /\ IsStepOf(i, 9) \/ IsStepOf(i, 10)
      /\ Whole(i, 3)
      /\ IsRegister(Operand(i, 1))
      /\ Resolves(i, 2)
      /\ Resolves(i, 3) ) =>
      LET b == Resolved(i, 2)
          c == Resolved(i, 3)
          exact == IF IsStepOf(i, 9) THEN b + c ELSE b * c
      IN /\ b \in 0 .. 32767
         /\ c \in 0 .. 32767
         /\ trace[i].tag = "ok"
         /\ Post(i).registers[Operand(i, 1) - 32768] = exact % 32768

\* add r0 32767 1 gave 0 and then mult r0 20000 20000 gave 400000000 mod 32768
C5_Witness ==
  /\ Len(trace) = 2
  /\ IsStepOf(1, 9) /\ Resolved(1, 2) = 32767 /\ Resolved(1, 3) = 1
  /\ Post(1).registers[0] = 0
  /\ IsStepOf(2, 10) /\ Resolved(2, 2) = 20000 /\ Resolved(2, 3) = 20000
  /\ trace[2].tag = "ok"
  /\ vm.registers[0] = 1024

\* C6: a mod step whose operands have the values b (in 0..32767) and c (in
\* 1..32767) stores the remainder of b divided by c, a value in 0..c-1, in its
\* destination register.
C6_ModRemainder ==
  \A i \in 1 .. Len(trace) :
    ( /\ IsStepOf(i, 11)
      /\ Whole(i, 3)
      /\ IsRegister(Operand(i, 1))
      /\ Resolves(i, 2)
      /\ Resolves(i, 3)
      /\ Resolved(i, 3) >= 1 ) =>
      LET b == Resolved(i, 2)
          c == Resolved(i, 3)
          stored == Post(i).registers[Operand(i, 1) - 32768]
      IN /\ b \in 0 .. 32767
         /\ c \in 1 .. 32767
         /\ trace[i].tag = "ok"
         /\ stored \in 0 .. c - 1
         /\ \E q \in 0 .. b : b = q * c + stored

\* set r0 5, then mod r1 32767 r0 stored 2
C6_Witness ==
  /\ Len(trace) = 2
  /\ IsStepOf(2, 11)
  /\ Resolved(2, 2) = 32767
  /\ Resolved(2, 3) = 5
  /\ trace[2].tag = "ok"
  /\ vm.registers[1] = 2

\* C7: a not step whose operand has the value b (in 0..32767) stores 32767 - b
\* in its destination register, and a second not of that register gives b back.
C7_NotComplement ==
  \A i \in 1 .. Len(trace) :
    ( /\ IsStepOf(i, 14)
      /\ Whole(i, 2)
      /\ IsRegister(Operand(i, 1))
      /\ Resolves(i, 2) ) =>
      LET b == Resolved(i, 2)
          stored == Post(i).registers[Operand(i, 1) - 32768]
      IN /\ b \in 0 .. 32767
         /\ trace[i].tag = "ok"
         /\ stored = 32767 - b
         /\ ( /\ i < Len(trace)
              /\ IsStepOf(i + 1, 14)
              /\ Whole(i + 1, 2)
              /\ Operand(i + 1, 1) = Operand(i, 1)
              /\ Operand(i + 1, 2) = Operand(i, 1) ) =>
              Post(i + 1).registers[Operand(i, 1) - 32768] = b

\* not r0 r0 twice from r0 = 0: 32767, then 0 again
C7_Witness ==
  /\ Len(trace) = 2
  /\ IsStepOf(1, 14) /\ Operand(1, 1) = 32768 /\ Operand(1, 2) = 32768
  /\ IsStepOf(2, 14) /\ Operand(2, 1) = 32768 /\ Operand(2, 2) = 32768
  /\ trace[1].pre.registers[0] = 0
  /\ trace[2].pre.registers[0] = 32767
  /\ trace[2].tag = "ok"
  /\ vm.registers[0] = 0

\* call number k is the pop that takes what the push of call number i put on
\* the stack: from the push to the pop the stack never gets as short as it was
\* before the push, and the pop leaves it that long
PopsPushOf(i, k) ==
  /\ i < k
  /\ IsStepOf(i, 2) /\ trace[i].tag = "ok"
  /\ IsStepOf(k, 3) /\ Whole(k, 1) /\ IsRegister(Operand(k, 1))
  /\ \A m \in i + 1 .. k : Len(trace[m].pre.stack) > Len(trace[i].pre.stack)
  /\ Len(Post(k).stack) = Len(trace[i].pre.stack)

\* C8: the stack is last in, first out: the pop into a register that takes the
\* element of a push stores the value pushed and leaves the stack as it was
\* before that push (so pops return the pushed values in reverse order).
C8_StackLifo ==
  \A i \in 1 .. Len(trace), k \in 1 .. Len(trace) :
    PopsPushOf(i, k) =>
      /\ Post(i).stack = Append(trace[i].pre.stack, Resolved(i, 1))
      /\ trace[k].tag = "ok"
      /\ Post(k).registers[Operand(k, 1) - 32768] = Resolved(i, 1)
      /\ Post(k).stack = trace[i].pre.stack

\* push 7; push 9; pop r0; pop r1 inside a called routine: r0 = 9, r1 = 7
C8_Witness ==
  /\ Len(trace) = 5
  /\ PopsPushOf(3, 4)
  /\ PopsPushOf(2, 5)
  /\ Resolved(2, 1) = 7
  /\ Resolved(3, 1) = 9
  /\ vm.registers[0] = 9
  /\ vm.registers[1] = 7
  /\ vm.stack = trace[2].pre.stack
  /\ vm.stack # <<>>

\* C9: a pop step on an empty stack fails with the pop-from-empty-stack error
\* and leaves the stack empty and every register and memory cell as it was.
C9_PopEmpty ==
  \A i \in 1 .. Len(trace) :
    (IsStepOf(i, 3) /\ Whole(i, 1) /\ trace[i].pre.stack = <<>>) =>
      /\ trace[i].tag = "pop_empty"
      /\ Post(i).stack = <<>>
      /\ Post(i).registers = trace[i].pre.registers
      /\ Post(i).memory = trace[i].pre.memory

\* set r0 5, then pop r1 on the empty stack: r0 is still 5, r1 still 0
C9_Witness ==
  /\ Len(trace) = 2
  /\ IsStepOf(2, 3)
  /\ trace[2].pre.stack = <<>>
  /\ trace[2].pre.registers[0] = 5
  /\ trace[2].tag = "pop_empty"
  /\ vm.registers[0] = 5

\* call number k is the first ret after the call of call number i, the stack
\* being, from that call to that ret, as the call left it
ReturnsFrom(i, k) ==
  /\ i < k
  /\ IsStepOf(i, 17) /\ Whole(i, 1) /\ Resolves(i, 1)
  /\ IsStepOf(k, 18)
  /\ \A m \in i + 1 .. k : trace[m].pre.stack = Post(i).stack

\* C10: a call step at address P pushes P + 2 and sets pc to the value of its
\* operand, and the next ret step, the stack not having changed, pops that
\* P + 2 and sets pc to P + 2; for every P, 32766 included.
C10_CallRet ==
  \A i \in 1 .. Len(trace), k \in 1 .. Len(trace) :
    ReturnsFrom(i, k) =>
      LET P == trace[i].pre.pc IN
      /\ Post(i).stack = Append(trace[i].pre.stack, P + 2)
      /\ Post(i).pc = Resolved(i, 1)
      /\ Post(k).stack = trace[i].pre.stack
      /\ Post(k).pc = P + 2

\* the same for the calls below the top of memory (P + 2 <= 32767), which holds
C10_CallRetBelowTop ==
  \A i \in 1 .. Len(trace), k \in 1 .. Len(trace) :
    (ReturnsFrom(i, k) /\ trace[i].pre.pc + 2 <= 32767) =>
      LET P == trace[i].pre.pc IN
      /\ Post(i).stack = Append(trace[i].pre.stack, P + 2)
      /\ Post(i).pc = Resolved(i, 1)
      /\ trace[k].tag = "ok"
      /\ Post(k).stack = trace[i].pre.stack
      /\ Post(k).pc = P + 2

-----------------------------------------------------------------------------
(* C11..C20 *)

\* C11: a ret step on an empty stack signals Halt (Ok(false), not an error) and
\* leaves the registers, the memory and the stack as they were.
C11_RetEmptyHalts ==
  \A i \in 1 .. Len(trace) :
    (IsStepOf(i, 18) /\ trace[i].pre.stack = <<>>) =>
      /\ trace[i].tag = "halt"
      /\ Post(i).stack = <<>>
      /\ Post(i).registers = trace[i].pre.registers
      /\ Post(i).memory = trace[i].pre.memory

\* set r0 5, then ret on the empty stack: a halt, r0 still 5
C11_Witness ==
  /\ Len(trace) = 2
  /\ IsStepOf(2, 18)
  /\ trace[2].pre.stack = <<>>
  /\ trace[2].pre.registers[0] = 5
  /\ trace[2].tag = "halt"
  /\ vm.registers[0] = 5
  /\ vm.stack = <<>>

\* what the calls 1 .. n wrote, one after the other
RECURSIVE Written(_)
Written(n) == IF n = 0 THEN <<>> ELSE Written(n - 1) \o trace[n].out

\* C12: each successful out step appends exactly one byte, load(a) & 0xFF, to
\* the end of the output and alters no earlier byte: the output is what the
\* steps wrote, in order, and an out step wrote that one byte.
C12_OutOneByte ==
  /\ output = Written(Len(trace))
  /\ \A i \in 1 .. Len(trace) :
       (IsStepOf(i, 19) /\ trace[i].tag = "ok") =>
         trace[i].out = <<BitAnd(Resolved(i, 1), 255)>>

\* how many bytes of stdin the calls before call number i have read
RECURSIVE InposBefore(_)
InposBefore(i) == IF i = 1 THEN 0 ELSE InposBefore(i - 1) + trace[i - 1].nread

\* a byte sequence without its carriage returns
NoCr(bytes) == SelectSeq(bytes, LAMBDA b : b # 13)

\* the values the successful in steps among the calls 1 .. n stored, in order
RECURSIVE Delivered(_)
Delivered(n) ==
  IF n = 0 THEN <<>>
  ELSE IF IsStepOf(n, 20) /\ trace[n].tag = "ok" /\ IsRegister(Operand(n, 1))
       THEN Append(Delivered(n - 1), Post(n).registers[Operand(n, 1) - 32768])
       ELSE Delivered(n - 1)

\* C13: the in steps deliver the input bytes that are not carriage returns,
\* each to exactly one in step and in input order, and never a carriage return.
C13_InSkipsCr ==
  LET got == Delivered(Len(trace))
      sent == NoCr(input)
  IN /\ Len(got) <= Len(sent)
     /\ got = SubSeq(sent, 1, Len(got))

\* C14: with a finite script on stdin, an in step signals Halt exactly when
\* every byte of the script has been read before it: the first in step after
\* the last byte halts, and no in step halts while unread bytes remain.
C14_InHaltsWhenExhausted ==
  \A i \in 1 .. Len(trace) :
    (IsStepOf(i, 20) /\ Whole(i, 1)) =>
      (trace[i].tag = "halt" <=> InposBefore(i) = Len(input))

\* three in steps read the three bytes of the script, the fourth halts
C14_Witness ==
  /\ Len(input) = 3
  /\ inpos = 3
  /\ Len(trace) = 5
  /\ \A i \in 2 .. 4 : IsStepOf(i, 20) /\ trace[i].tag = "ok" /\ trace[i].nread = 1
  /\ IsStepOf(5, 20)
  /\ trace[5].tag = "halt"

\* C15: a step whose opcode word is not in 0..21 fails with the unknown-opcode
\* error carrying that word, and leaves registers, memory, stack and output as
\* they were.
C15_UnknownOpcode ==
  \A i \in 1 .. Len(trace) :
    (/\ trace[i].op = "cycle"
     /\ trace[i].pre.pc < ADDRESS_SPACE
     /\ MemGet(trace[i].pre.memory, trace[i].pre.pc) \notin 0 .. 21) =>
      /\ trace[i].tag = "unknown_opcode"
      /\ trace[i].val = MemGet(trace[i].pre.memory, trace[i].pre.pc)
      /\ Post(i).registers = trace[i].pre.registers
      /\ Post(i).memory = trace[i].pre.memory
      /\ Post(i).stack = trace[i].pre.stack
      /\ trace[i].out = <<>>
      /\ output = Written(Len(trace))

\* push 7, then the word 65535 as an opcode: the error carries 65535 and the
\* stack still holds the 7
C15_Witness ==
  /\ Len(trace) = 2
  /\ IsStepOf(2, 65535)
  /\ trace[2].pre.stack = <<7>>
  /\ trace[2].tag = "unknown_opcode"
  /\ trace[2].val = 65535
  /\ vm.stack = <<7>>

\* C16: from registers all zero and an empty stack, whatever memory holds, every
\* register value and every stack element of every reachable state is in
\* [0,32767], and so is every value a wmem step writes into memory.
C16_StoredValues ==
  /\ \A n \in DOMAIN vm.registers : vm.registers[n] \in 0 .. 32767
  /\ \A k \in 1 .. Len(vm.stack) : vm.stack[k] \in 0 .. 32767
  /\ \A i \in 1 .. Len(trace) :
       (IsStepOf(i, 16) /\ trace[i].tag = "ok") =>
         \A a \in DOMAIN Post(i).memory :
           Post(i).memory[a] # MemGet(trace[i].pre.memory, a) =>
             Post(i).memory[a] \in 0 .. 32767

\* call number i is a jump-type step (jmp, jt, jf, call, ret) that set pc to
\* its target, not to the address after its last operand
Jumped(i) ==
  /\ \E opcode \in {6, 7, 8, 17, 18} : IsStepOf(i, opcode)
  /\ trace[i].tag = "ok"
  /\ Post(i).pc # trace[i].pre.pc + 1 + Arity(MemGet(trace[i].pre.memory, trace[i].pre.pc))

\* C17: in every state reachable by stepping, pc is in [0,32767] unless the
\* step that produced it was a jump-type step that jumped out of range; the
\* sequential advance past an opcode or an operand never leaves [0,32767].
C17_PcInRange ==
  \A i \in 1 .. Len(trace) :
    trace[i].op = "cycle" => (Post(i).pc \in 0 .. 32767 \/ Jumped(i))

\* C18: a VM constructed from an image of n little-endian words has
\* memory[i] = low_i + 256 * high_i for i < n and 0 from n on, all 8 registers
\* 0, an empty stack and pc = 0.
C18_ImageLoaded ==
  \A i \in 1 .. Len(trace) :
    trace[i].op = "load_program_from_file" =>
      LET bytes == trace[i].args[1]
          n == Len(bytes) \div 2
          loaded == Post(i)
      IN /\ \A a \in 0 .. n - 1 :
              MemGet(loaded.memory, a) = bytes[2 * a + 1] + 256 * bytes[2 * a + 2]
         /\ \A a \in DOMAIN loaded.memory : a >= n => loaded.memory[a] = 0
         /\ DOMAIN loaded.registers = 0 .. 7
         /\ \A r \in 0 .. 7 : loaded.registers[r] = 0
         /\ loaded.stack = <<>>
         /\ loaded.pc = 0

\* the image 01 FF 15 00: the words 65281 and 21
C18_Witness ==
  /\ Len(trace) = 1
  /\ trace[1].op = "load_program_from_file"
  /\ trace[1].args[1] = <<1, 255, 21, 0>>
  /\ MemGet(vm.memory, 0) = 65281
  /\ MemGet(vm.memory, 1) = 21
  /\ MemGet(vm.memory, 2) = 0

\* C20: a saved snapshot consists of exactly the fields memory (32768 words),
\* registers (8 words), pc, stack, in this order, the stack being the trailing
\* run; the loader reads them in the same order and takes what follows pc as
\* the stack, bottom first.
C20_SnapshotLayout ==
  restored.present =>
    LET snapshot == restored.snapshot
        saved == IF restored.base.steps = Len(trace) THEN vm
                 ELSE trace[restored.base.steps + 1].pre
    IN /\ [k \in 1 .. Len(snapshot) |-> snapshot[k].key] =
            <<"memory", "registers", "pc", "stack">>
       /\ snapshot[1].value.len = 32768
       /\ Len(snapshot[2].value) = 8
       /\ snapshot[3].value = saved.pc
       /\ snapshot[4].value = saved.stack

\* C19: run_until_prompt() executes no VM step after a step has signalled Halt
\* or returned an error: after such a step it returns at once, Ok(()) after a
\* Halt and the step's error after an error, and nothing runs after a return.
C19_LoopStops ==
  /\ \A i \in 1 .. Len(trace) :
       (trace[i].op = "cycle" /\ trace[i].tag \in {"halt"} \cup ErrorTags) =>
         /\ Len(trace) = i + 1
         /\ trace[i + 1].op = "return"
         /\ trace[i + 1].pre = vm
         /\ trace[i].tag = "halt" => trace[i + 1].tag = "ok"
         /\ trace[i].tag \in ErrorTags =>
              trace[i + 1].tag = trace[i].tag /\ trace[i + 1].val = trace[i].val
  /\ \A i \in 1 .. Len(trace) : trace[i].op = "return" => i = Len(trace)

\* call 140 with '7', CR, LF on stdin: the routine echoes two bytes and returns,
\* the seventh step halts and the loop returns Ok(()) with the VM as that step
\* left it
C19_Witness ==
  /\ Len(trace) = 8
  /\ \A i \in 1 .. 6 : trace[i].op = "cycle" /\ trace[i].tag = "ok"
  /\ trace[7].op = "cycle" /\ trace[7].tag = "halt"
  /\ trace[8].op = "return" /\ trace[8].tag = "ok"
  /\ output = <<55, 13>>
  /\ vm = trace[8].pre

-----------------------------------------------------------------------------
(* C21..C30 *)

\* C21: a rmem step with a valid destination register a stores in a exactly the
\* word held in memory cell load(b), whatever that word is (words in
\* [32768,65535] included), and changes no memory cell.
C21_RmemExactWord ==
  \A i \in 1 .. Len(trace) :
    (/\ IsStepOf(i, 15) /\ Whole(i, 2)
     /\ IsRegister(Operand(i, 1))
     /\ Resolves(i, 2)) =>
      /\ trace[i].tag = "ok"
      /\ Post(i).registers[Operand(i, 1) - 32768] =
           MemGet(trace[i].pre.memory, Resolved(i, 2))
      /\ Post(i).memory = trace[i].pre.memory

\* C22: a successful wmem step sets memory[load(a)] to load(b) and leaves every
\* other cell, every register and the stack unchanged; and no other step, nor a
\* wmem step that fails, changes any memory cell.
C22_WmemFrame ==
  \A i \in 1 .. Len(trace) :
    trace[i].op = "cycle" =>
      IF IsStepOf(i, 16) /\ trace[i].tag = "ok"
      THEN /\ Post(i).memory = MemPut(trace[i].pre.memory, Resolved(i, 1), Resolved(i, 2))
           /\ Post(i).registers = trace[i].pre.registers
           /\ Post(i).stack = trace[i].pre.stack
      ELSE Post(i).memory = trace[i].pre.memory

\* mod r0 12345 100, then wmem r0 21: the word 21 goes to cell 45, the one r0
\* names
C22_Witness ==
  /\ Len(trace) = 2
  /\ IsStepOf(2, 16)
  /\ trace[2].tag = "ok"
  /\ Operand(2, 1) = 32768
  /\ trace[2].pre.registers[0] = 45
  /\ MemGet(trace[2].pre.memory, 45) = 0
  /\ MemGet(vm.memory, 45) = 21
  /\ MemGet(vm.memory, 0) = 11

\* C23: a successful jmp step sets pc to load(a); a successful jt step at P
\* sets pc to load(b) when load(a) # 0 and to P + 3 otherwise; a successful jf
\* step at P sets pc to load(b) when load(a) = 0 and to P + 3 otherwise; none
\* of the three changes registers, memory or the stack.
C23_Jumps ==
  \A i \in 1 .. Len(trace) :
    LET P == trace[i].pre.pc IN
    /\ (IsStepOf(i, 6) /\ trace[i].tag = "ok") => Post(i).pc = Resolved(i, 1)
    /\ (IsStepOf(i, 7) /\ trace[i].tag = "ok") =>
         Post(i).pc = IF Resolved(i, 1) # 0 THEN Resolved(i, 2) ELSE P + 3
    /\ (IsStepOf(i, 8) /\ trace[i].tag = "ok") =>
         Post(i).pc = IF Resolved(i, 1) = 0 THEN Resolved(i, 2) ELSE P + 3
    /\ ((IsStepOf(i, 6) \/ IsStepOf(i, 7) \/ IsStepOf(i, 8)) /\ trace[i].tag = "ok") =>
         /\ Post(i).registers = trace[i].pre.registers
         /\ Post(i).memory = trace[i].pre.memory
         /\ Post(i).stack = trace[i].pre.stack

\* jt r0 160; jf r0 120 with r0 = 0: the jt step goes on to 3, the jf step
\* jumps to 120
C23_Witness ==
  /\ Len(trace) = 2
  /\ IsStepOf(1, 7) /\ trace[1].tag = "ok"
  /\ IsStepOf(2, 8) /\ trace[2].tag = "ok"
  /\ trace[2].pre.pc = 3
  /\ trace[2].pre.registers[0] = 0
  /\ vm.pc = 120

\* the operand count of each opcode that does not always jump
OperandCount(opcode) ==
  CASE opcode = 21 -> 0
    [] opcode \in {2, 3, 19, 20} -> 1
    [] opcode \in {1, 14, 15, 16, 7, 8} -> 2
    [] opcode \in {4, 5, 9, 10, 11, 12, 13} -> 3

\* call number i is a successful step of an instruction that does not jump
StepsOn(i) ==
  /\ trace[i].op = "cycle"
  /\ trace[i].tag = "ok"
  /\ \E opcode \in (1 .. 5) \cup (7 .. 16) \cup (19 .. 21) : IsStepOf(i, opcode)
  /\ IsStepOf(i, 7) => Resolved(i, 1) = 0
  /\ IsStepOf(i, 8) => Resolved(i, 1) # 0

\* C24: every successful step of an instruction that does not jump leaves pc at
\* its value before the step plus 1 plus the operand count of the opcode, and
\* a noop step changes nothing else.
C24_PcAdvance ==
  \A i \in 1 .. Len(trace) :
    /\ StepsOn(i) =>
         Post(i).pc = trace[i].pre.pc + 1
                        + OperandCount(MemGet(trace[i].pre.memory, trace[i].pre.pc))
    /\ (IsStepOf(i, 21) /\ trace[i].tag = "ok") =>
         /\ Post(i).registers = trace[i].pre.registers
         /\ Post(i).memory = trace[i].pre.memory
         /\ Post(i).stack = trace[i].pre.stack
         /\ trace[i].out = <<>>
         /\ trace[i].nread = 0

\* noop; add r0 32767 1: pc is 1 after the noop and 5 after the add
C24_Witness ==
  /\ Len(trace) = 2
  /\ IsStepOf(1, 21) /\ trace[1].tag = "ok"
  /\ trace[2].pre.pc = 1
  /\ IsStepOf(2, 9) /\ trace[2].tag = "ok"
  /\ vm.pc = 5

\* no Backspace was handled: the input buffer is then all the bytes appended,
\* in append order
OnlyAppended == \A i \in 1 .. Len(trace) : trace[i].op # "Backspace"

\* C25: with the buffered input, after any interleaving of append_input() calls
\* and in steps the bytes delivered to the in steps are, in order and carriage
\* returns aside, a prefix of all the appended bytes in append order.
C25_AppendKeepsOrder ==
  OnlyAppended =>
    LET got == NoCr(Delivered(Len(trace)))
        sent == NoCr(input)
    IN /\ Len(got) <= Len(sent)
       /\ got = SubSeq(sent, 1, Len(got))

\* a VM stepped k times with nothing else reading stdin: the VM, the cursor and
\* what it printed
RECURSIVE RunAlone(_, _, _)
RunAlone(v, pos, k) ==
  IF k = 0 THEN [vm |-> v, pos |-> pos, out |-> <<>>]
  ELSE LET before == RunAlone(v, pos, k - 1)
           r == Cycle(before.vm, Rest(before.pos))
       IN [vm |-> r.vm, pos |-> before.pos + r.nread, out |-> before.out \o r.out]

\* what the steps 1 .. n of a history printed
RECURSIVE WrittenBy(_, _)
WrittenBy(history, n) ==
  IF n = 0 THEN <<>> ELSE WrittenBy(history, n - 1) \o history[n].out

\* C26: two VMs that are copies of one state, stepped in any interleaving, are
\* each in the state, and have each printed the output, they would have had if
\* stepped alone from the copy.
C26_CopiesIndependent ==
  restored.present =>
    LET mine == Len(trace) - restored.base.steps
        start == IF mine = 0 THEN vm ELSE trace[restored.base.steps + 1].pre
        first == RunAlone(start, restored.base.inpos, mine)
        second == RunAlone(start, restored.base.inpos, Len(restored.trace))
    IN /\ vm = first.vm
       /\ restored.vm = second.vm
       /\ WrittenBy(trace, Len(trace)) =
            WrittenBy(trace, restored.base.steps) \o first.out
       /\ WrittenBy(restored.trace, Len(restored.trace)) = second.out

\* C27: every step on a VM whose pc is in [0,32767] ends in one of the
\* documented outcomes: success, Halt, or one of the errors; none aborts the
\* process, not a mod by zero and not an instruction at the top of memory.
C27_OutcomeTaxonomy ==
  \A i \in 1 .. Len(trace) :
    (trace[i].op = "cycle" /\ trace[i].pre.pc \in 0 .. 32767) =>
      trace[i].tag \in {"ok", "halt"} \cup ErrorTags

\* C28: a step that returns an error other than Halt leaves the stack, the
\* registers and memory exactly as they were before the step; a pop whose
\* destination is no register keeps the top of the stack, a call whose target
\* is invalid leaves no return address pushed.
C28_ErrorKeepsState ==
  \A i \in 1 .. Len(trace) :
    (trace[i].op = "cycle" /\ trace[i].tag \in ErrorTags) =>
      /\ Post(i).stack = trace[i].pre.stack
      /\ Post(i).registers = trace[i].pre.registers
      /\ Post(i).memory = trace[i].pre.memory

\* C29: Halt is terminal: once a step has signalled Halt, every later step on
\* the same VM also signals Halt and changes neither registers, memory, stack
\* nor output.
C29_HaltTerminal ==
  \A i \in 1 .. Len(trace), k \in 1 .. Len(trace) :
    (/\ i < k
     /\ trace[i].op = "cycle" /\ trace[i].tag = "halt"
     /\ trace[k].op = "cycle") =>
      /\ trace[k].tag = "halt"
      /\ Post(k).registers = trace[k].pre.registers
      /\ Post(k).memory = trace[k].pre.memory
      /\ Post(k).stack = trace[k].pre.stack
      /\ trace[k].out = <<>>

\* C30: Room::parse terminates on every finite buffer and cursor position with
\* a (prelude, room) result or an error: no step of the call leaves the call
\* where it was (a turn of a loop that changes nothing is repeated for ever),
\* and the call ends in Ok or Err.
C30_ParseTerminates ==
  /\ room.at \in {"start", "description", "list", "header"} =>
       ParseStep(room, output) # room
  /\ room.at = "done" => room.result \in {"ok_none", "ok_some", "err"}

\* the same without the calls that end in a panic: the loop over the
\* description lines at the end of the buffer
C30_ParseNeverSpins ==
  room.at \in {"start", "description", "list", "header"} =>
    ParseStep(room, output) # room

\* the whole room is parsed when the buffer ends with the prompt
C30_ParsedWhole ==
  (output = RoomText /\ room.at = "done" /\ room.prelude = <<104, 105, 10>>) =>
    /\ room.result = "ok_some"
    /\ room.title = <<65>>
    /\ room.description = <<100>>
    /\ room.items = << <<107>> >>
    /\ room.exits = << <<110>> >>

-----------------------------------------------------------------------------
(* The terminal front-end: main() runs the program to its first prompt and    *)
(* then handles key events.  The input the VM reads is the buffer `input`     *)
(* with the read cursor `inpos`.  A handler's position is the last record of  *)
(* `trace`: the Enter handler is inside run_until_prompt() from its "Enter"   *)
(* record to the "return" record.                                             *)

\* the key events handled in a run
MaxKeys == 4

\* the calls and handlers of a run
MaxTerminalSteps == 30

\* the programs of the terminal: those that read, one that prints the prompt,
\* one that reads a byte and prints the prompt, one that halts between two
\* reads
TerminalPrograms ==
  ReadingPrograms
    \cup { << <<17, 220>> >>, << <<20, Reg(0)>>, <<17, 220>> >>,
           << <<20, Reg(0)>>, <<0>>, <<20, Reg(1)>> >> }

\* the characters of the Char events: '7', and U+010A whose low byte is 10
KeyChars == {55, 266}

\* `ch as u8`
AsU8(ch) == ch % 256

\* vm.append_input(bytes) on a buffer: the bytes go to its end
AppendTo(buf, bytes) == buf \o bytes

\* a Backspace that pops whatever the cursor is at
BackspaceUnguarded(buf, pos) ==
  IF buf = <<>> THEN buf ELSE SubSeq(buf, 1, Len(buf) - 1)

\* the Backspace handler on the buffer: nothing when the byte at the read
\* cursor is a newline or the cursor is at the end, else Vec::pop
Backspace(buf, pos) ==
  IF pos >= Len(buf) THEN buf
  ELSE IF buf[pos + 1] = 10 THEN buf
  ELSE SubSeq(buf, 1, Len(buf) - 1)

\* the key events handled so far
Keys == {i \in 1 .. Len(trace) : trace[i].op \in {"Char", "Backspace", "Enter"}}

\* the Enter events handled so far
Enters == {i \in 1 .. Len(trace) : trace[i].op = "Enter"}

\* `pos` of the run_until_prompt() call that is running or ran last: the
\* output's end at the Enter, or that of a new Cursor
TerminalPosition ==
  IF Enters = {} THEN EntryPosition
  ELSE trace[CHOOSE i \in Enters : \A j \in Enters : j <= i].val

\* run_until_prompt() is inside its loop
TerminalInLoop ==
  IF trace = <<>> THEN TRUE
  ELSE trace[Len(trace)].op \in {"cycle", "Enter"} /\ trace[Len(trace)].tag # "panic"

\* the event loop waits for a key
AtEventLoop ==
  IF trace = <<>> THEN FALSE
  ELSE trace[Len(trace)].op \in {"return", "Char", "Backspace"} /\ trace[Len(trace)].tag = "ok"

\* the read cursor after run_until_prompt() has returned Ok: the Enter
\* handler seeks to the end of the input, the first call leaves it
CursorAfterReturn(pos) == IF Enters = {} THEN pos ELSE Len(input)

\* the Ok(()) of run_until_prompt() called with `pos`
TerminalReturnOk(v, out) ==
  Call("return", <<>>, v,
       Outcome(v, "ok", TerminalPosition + FirstNonWsOffset(OutputFrom(TerminalPosition, out))))

InitTerminal ==
  /\ \E p \in TerminalPrograms : vm = LoadProgram(New, Image(p))
  /\ input = <<>>
  /\ inpos = 0
  /\ output = <<>>
  /\ trace = <<>>
  /\ restored = NoCopy
  /\ room = NoParse
  /\ solver = NoSolver

\* one iteration of the while loop of run_until_prompt()
TerminalIterate ==
  /\ TerminalInLoop
  /\ Len(trace) < MaxTerminalSteps
  /\ ~ EndsWith(OutputFrom(TerminalPosition, output), Prompt)
  /\ LET peek == Peek(vm) IN
     IF peek.tag = "panic"
     THEN /\ trace' = Append(trace, Call("peek", <<>>, vm, Panic(vm)))
          /\ UNCHANGED <<vm, inpos, output>>
     ELSE IF peek.tag # "ok"
     THEN /\ trace' = Append(trace, ReturnErr(vm, peek.tag, peek.val))
          /\ UNCHANGED <<vm, inpos, output>>
     ELSE LET r == Cycle(vm, Rest(inpos))
              step == Call("cycle", peek.writes, vm, r)
              todo == AfterCycle(r)
          IN /\ vm' = r.vm
             /\ output' = output \o r.out
             /\ inpos' = IF todo = "break" THEN CursorAfterReturn(inpos + r.nread)
                         ELSE inpos + r.nread
             /\ trace' = CASE todo = "break" ->
                                Append(Append(trace, step),
                                       TerminalReturnOk(r.vm, output \o r.out))
                            [] todo = "bail" ->
                                Append(Append(trace, step), ReturnErr(r.vm, r.tag, r.val))
                            [] OTHER -> Append(trace, step)
  /\ UNCHANGED <<input, restored, room, solver>>

\* the loop ends on the prompt
TerminalReturn ==
  /\ TerminalInLoop
  /\ EndsWith(OutputFrom(TerminalPosition, output), Prompt)
  /\ inpos' = CursorAfterReturn(inpos)
  /\ trace' = Append(trace, TerminalReturnOk(vm, output))
  /\ UNCHANGED <<vm, input, output, restored, room, solver>>

\* KeyCode::Char(ch): the record keeps the buffer and the cursor before
KeyChar ==
  /\ AtEventLoop
  /\ Cardinality(Keys) < MaxKeys
  /\ \E ch \in KeyChars :
       /\ input' = AppendTo(input, <<AsU8(ch)>>)
       /\ trace' = Append(trace, Call("Char", <<input>>, vm, Outcome(vm, "ok", inpos)))
  /\ UNCHANGED <<vm, inpos, output, restored, room, solver>>

\* KeyCode::Backspace: the record keeps the buffer and the cursor before
KeyBackspace ==
  /\ AtEventLoop
  /\ Cardinality(Keys) < MaxKeys
  /\ input' = Backspace(input, inpos)
  /\ trace' = Append(trace, Call("Backspace", <<input>>, vm, Outcome(vm, "ok", inpos)))
  /\ UNCHANGED <<vm, inpos, output, restored, room, solver>>

\* KeyCode::Enter up to the call of run_until_prompt(): the output cursor
\* goes to the end, which the record keeps with the buffer submitted
KeyEnter ==
  /\ AtEventLoop
  /\ Cardinality(Keys) < MaxKeys
  /\ input' = AppendTo(input, <<10>>)
  /\ trace' = Append(trace, Call("Enter", <<AppendTo(input, <<10>>)>>, vm,
                                 Outcome(vm, "ok", Len(output))))
  /\ UNCHANGED <<vm, inpos, output, restored, room, solver>>

NextTerminal == TerminalIterate \/ TerminalReturn \/ KeyChar \/ KeyBackspace \/ KeyEnter

SpecTerminal == InitTerminal /\ [][NextTerminal]_vars

\* the buffer as the last Enter submitted it
Submitted ==
  IF Enters = {} THEN <<>>
  ELSE trace[CHOOSE i \in Enters : \A j \in Enters : j <= i].args[1]

\* the last event handled was a Backspace
AfterBackspace == trace # <<>> /\ trace[Len(trace)].op = "Backspace"

\* C31: in the terminal, after any Char, Enter and Backspace events, a
\* Backspace leaves the input buffer as it was or without its last byte, and
\* a byte it removes is at or after the read cursor; the buffer always begins
\* with what the last Enter submitted, newline included.
C31_BackspaceUnconsumed ==
  /\ inpos <= Len(input)
  /\ Len(Submitted) <= Len(input)
  /\ SubSeq(input, 1, Len(Submitted)) = Submitted
  /\ AfterBackspace =>
       LET before == trace[Len(trace)].args[1]
           cursor == trace[Len(trace)].val
       IN /\ inpos = cursor
          /\ \/ input = before
             \/ /\ before # <<>>
                /\ input = SubSeq(before, 1, Len(before) - 1)
                /\ cursor < Len(before)
                /\ Len(Submitted) < Len(before)

\* a Backspace after an Enter and two Chars has removed the second one
C31_Witness ==
  /\ AfterBackspace
  /\ Enters # {}
  /\ Len(trace[Len(trace)].args[1]) = Len(input) + 1
  /\ Len(input) = Len(Submitted) + 1

\* a Backspace right after an Enter has left the submitted line alone
C31_WitnessSubmitted ==
  /\ AfterBackspace
  /\ Len(trace) >= 2
  /\ trace[Len(trace) - 1].op = "return"
  /\ Submitted # <<>>
  /\ input = Submitted

-----------------------------------------------------------------------------
(* The vault solver: pathfind() searches the states (x, y, w) of the orb, its *)
(* room and its weight, from (0, 0, 22) to (3, 3, 30).  `solver` holds the    *)
(* locals of the call: graph, dist, prev and the priority queue q (each item   *)
(* with its distance d, the priority being Reverse(d)).                        *)

\* the grid is 4x4: the range (0..4) of x and of y
GRID_SIZE == 4

\* the weight of the orb at the start, and the one the vault door asks for
START_WEIGHT == 22

TARGET_WEIGHT == 30

\* the weights are below 32768: the range (0..32768)
WEIGHT_LIMIT == 32768

\* the room of the vault door, where the search ends
DOOR == <<3, 3>>

\* Cell::Num(n), Cell::Add, Cell::Mul, Cell::Sub
Num(n) == [kind |-> "Num", n |-> n]

Add == [kind |-> "Add"]

Mul == [kind |-> "Mul"]

Sub == [kind |-> "Sub"]

\* the match on (cell, ncell): the weight after the move, or unreachable!()
NextWeight(cell, ncell, w) ==
  IF cell.kind = "Num" THEN [tag |-> "ok", val |-> w]
  ELSE IF ncell.kind # "Num" THEN [tag |-> "panic", val |-> 0]
  ELSE IF cell.kind = "Add" THEN [tag |-> "ok", val |-> w + ncell.n]
  ELSE IF cell.kind = "Mul" THEN [tag |-> "ok", val |-> w * ncell.n]
  ELSE [tag |-> "ok", val |-> w - ncell.n]

\* the closure of filter_map on one neighbour: "none", "panic", or the state
Neighbor(graph, cell, w, n) ==
  IF n = <<0, 0>> THEN [tag |-> "none"]
  ELSE IF n \notin DOMAIN graph THEN [tag |-> "none"]
  ELSE LET nw == NextWeight(cell, graph[n], w) IN
       IF nw.tag = "panic" THEN [tag |-> "panic"]
       ELSE IF ~ (/\ n[1] \in 0 .. GRID_SIZE - 1
                  /\ n[2] \in 0 .. GRID_SIZE - 1
                  /\ nw.val \in 0 .. WEIGHT_LIMIT - 1)
       THEN [tag |-> "none"]
       ELSE [tag |-> "some", state |-> <<n[1], n[2], nw.val>>]

\* the array the neighbours are taken from, in its order
Around(x, y) == << <<x + 1, y>>, <<x - 1, y>>, <<x, y + 1>>, <<x, y - 1>> >>

\* the body of the for loop, for the neighbours from the k-th on: the locals
\* after it, with at = "panic" when a neighbour hit unreachable!()
RECURSIVE Relax(_, _, _, _, _)
Relax(s, u, d, around, k) ==
  IF k > Len(around) THEN s
  ELSE LET n == Neighbor(s.graph, s.graph[<<u[1], u[2]>>], u[3], around[k])
           alt == d + 1
       IN IF n.tag = "panic" THEN [s EXCEPT !.at = "panic"]
          ELSE IF n.tag = "none" THEN Relax(s, u, d, around, k + 1)
          ELSE IF n.state \in DOMAIN s.dist /\ ~ (alt < s.dist[n.state])
          THEN Relax(s, u, d, around, k + 1)
          ELSE Relax([s EXCEPT !.dist = (n.state :> alt) @@ @,
                               !.prev = (n.state :> u) @@ @,
                               !.q = (n.state :> alt) @@ @],
                     u, d, around, k + 1)

\* the crumbs from a state back to the one that has no prev, as positions
RECURSIVE Crumbs(_, _)
Crumbs(prev, crumb) ==
  IF crumb \in DOMAIN prev
  THEN << <<prev[crumb][1], prev[crumb][2]>> >> \o Crumbs(prev, prev[crumb])
  ELSE <<>>

\* Vec::reverse
Reverse(seq) == [i \in 1 .. Len(seq) |-> seq[Len(seq) + 1 - i]]

\* a pop that may return any item of the queue
PoppableAny(q) == DOMAIN q

\* the items q.pop() may return: those of the greatest priority Reverse(d),
\* the least d
Poppable(q) == {u \in DOMAIN q : \A v \in DOMAIN q : q[u] <= q[v]}

\* the queue without an item
Without(q, u) == [v \in DOMAIN q \ {u} |-> q[v]]

\* the locals before the while loop
PathfindStart(graph) ==
  [at |-> "pathfind", graph |-> graph,
   dist |-> (<<0, 0, START_WEIGHT>> :> 0),
   prev |-> <<>>,
   q |-> (<<0, 0, START_WEIGHT>> :> 0),
   path |-> <<>>]

\* one iteration of the while loop on the popped item u of distance d
PathfindStep(s, u, d) ==
  LET popped == [s EXCEPT !.q = Without(s.q, u)] IN
  IF u = <<DOOR[1], DOOR[2], TARGET_WEIGHT>>
  THEN [popped EXCEPT !.at = "returned",
                      !.path = Reverse(<< <<u[1], u[2]>> >> \o Crumbs(s.prev, u))]
  ELSE IF <<u[1], u[2]>> = DOOR THEN popped
  ELSE IF <<u[1], u[2]>> \notin DOMAIN s.graph THEN [popped EXCEPT !.at = "panic"]
  ELSE Relax(popped, u, d, Around(u[1], u[2]), 1)

\* the grids walk() leaves, before main() inserts the door's room.  Numbers
\* are in the rooms of even x + y, operations in the others.
\* a corridor along the south and east walls: 22 + 4 + 4 * 1
GridCorridor ==
  (<<0, 0>> :> Num(22)) @@ (<<1, 0>> :> Add) @@ (<<2, 0>> :> Num(4)) @@ (<<3, 0>> :> Add)
    @@ (<<3, 1>> :> Num(4)) @@ (<<3, 2>> :> Mul) @@ (<<3, 3>> :> Num(1))

\* the corridor where the straight way reaches the door with 26: the orb has
\* to go back over the + once
GridDetour ==
  (<<0, 0>> :> Num(22)) @@ (<<1, 0>> :> Add) @@ (<<2, 0>> :> Num(4)) @@ (<<3, 0>> :> Mul)
    @@ (<<3, 1>> :> Num(1)) @@ (<<3, 2>> :> Mul) @@ (<<3, 3>> :> Num(1))

\* the detour and, along the west and north walls, a straight way: 22 + 8 * 1 * 1
GridTwoWays ==
  GridDetour @@ (<<0, 1>> :> Add) @@ (<<0, 2>> :> Num(8)) @@ (<<0, 3>> :> Mul)
    @@ (<<1, 3>> :> Num(1)) @@ (<<2, 3>> :> Mul)

\* a way that needs a weight below zero on it, beside the detour: 22 - 30 + 38
GridBelowZero ==
  GridDetour @@ (<<0, 1>> :> Sub) @@ (<<0, 2>> :> Num(30)) @@ (<<0, 3>> :> Add)
    @@ (<<1, 3>> :> Num(38)) @@ (<<2, 3>> :> Mul)

\* no way to the door: the weights grow past the limit
GridNoWay == (<<0, 0>> :> Num(22)) @@ (<<1, 0>> :> Mul) @@ (<<2, 0>> :> Num(40))

\* two operations side by side
GridTwoOperations == (<<0, 0>> :> Num(22)) @@ (<<1, 0>> :> Add) @@ (<<2, 0>> :> Sub)

VaultGrids ==
  {GridCorridor, GridDetour, GridTwoWays, GridBelowZero, GridNoWay, GridTwoOperations}

\* graph.insert((3, 3), Cell::Num(1)): the door's room holds 1, whatever the
\* graph had there
InsertDoor(graph) == (DOOR :> Num(1)) @@ graph

InitVault ==
  /\ vm = New
  /\ input = <<>>
  /\ inpos = 0
  /\ output = <<>>
  /\ trace = <<>>
  /\ restored = NoCopy
  /\ room = NoParse
  /\ \E graph \in VaultGrids : solver = PathfindStart(InsertDoor(graph))

\* one iteration of the while loop: the pop and the body
PathfindIterate ==
  /\ solver.at = "pathfind"
  /\ \E u \in Poppable(solver.q) : solver' = PathfindStep(solver, u, solver.q[u])
  /\ UNCHANGED <<vm, input, inpos, output, trace, restored, room>>

\* the queue is empty: unreachable!() after the loop
PathfindUnreachable ==
  /\ solver.at = "pathfind"
  /\ DOMAIN solver.q = {}
  /\ solver' = [solver EXCEPT !.at = "panic"]
  /\ UNCHANGED <<vm, input, inpos, output, trace, restored, room>>

NextVault == PathfindIterate \/ PathfindUnreachable

SpecVault == InitVault /\ [][NextVault]_vars

\* the moves a way is looked for with, when the search has failed
MaxMoves == 10

\* the rooms of the grid
InGrid(pos) == pos[1] \in 0 .. 3 /\ pos[2] \in 0 .. 3

\* two rooms next to each other
Adjacent(a, b) ==
  \/ a[1] = b[1] /\ (a[2] = b[2] + 1 \/ b[2] = a[2] + 1)
  \/ a[2] = b[2] /\ (a[1] = b[1] + 1 \/ b[1] = a[1] + 1)

\* the orb's weight after it is carried from room a to room b with weight w:
\* a number room applies the operation the orb comes from
Carried(graph, a, b, w) ==
  IF graph[b].kind # "Num" \/ graph[a].kind = "Num" THEN w
  ELSE CASE graph[a].kind = "Add" -> w + graph[b].n
         [] graph[a].kind = "Mul" -> w * graph[b].n
         [] graph[a].kind = "Sub" -> w - graph[b].n

\* the weights of the orb along a path that starts with 22
RECURSIVE Weights(_, _)
Weights(graph, path) ==
  IF Len(path) = 1 THEN <<22>>
  ELSE LET before == Weights(graph, SubSeq(path, 1, Len(path) - 1))
       IN Append(before,
                 Carried(graph, path[Len(path) - 1], path[Len(path)], before[Len(before)]))

\* a path as the claim wants it
ValidPath(graph, path) ==
  /\ path # <<>>
  /\ path[1] = <<0, 0>>
  /\ path[Len(path)] = <<3, 3>>
  /\ \A i \in 1 .. Len(path) : InGrid(path[i]) /\ path[i] \in DOMAIN graph
  /\ \A i \in 1 .. Len(path) - 1 : Adjacent(path[i], path[i + 1])
  /\ \A i \in 2 .. Len(path) : path[i] # <<0, 0>>
  /\ \A i \in 1 .. Len(path) - 1 : path[i] # <<3, 3>>
  /\ \A i \in 1 .. Len(path) : Weights(graph, path)[i] \in 0 .. 32767
  /\ Weights(graph, path)[Len(path)] = 30

\* where the orb can be, and with what weight, after exactly k moves of such
\* a path (two operations are never crossed in a row)
RECURSIVE Within(_, _)
Within(graph, k) ==
  IF k = 0 THEN { <<0, 0, 22>> }
  ELSE { <<b[1], b[2], Carried(graph, <<s[1], s[2]>>, b, s[3])>> :
           <<s, b>> \in { e \in Within(graph, k - 1) \X DOMAIN graph :
                         /\ <<e[1][1], e[1][2]>> # <<3, 3>>
                         /\ e[2] # <<0, 0>>
                         /\ InGrid(e[2])
                         /\ Adjacent(<<e[1][1], e[1][2]>>, e[2])
                         /\ graph[<<e[1][1], e[1][2]>>].kind = "Num" \/ graph[e[2]].kind = "Num"
                         /\ Carried(graph, <<e[1][1], e[1][2]>>, e[2], e[1][3]) \in 0 .. 32767 } }

\* C32: the path pathfind returns starts at (0,0) with weight 22 and ends at
\* (3,3) with weight 30, every weight on it is in [0,32767], every position is
\* in the 4x4 grid, (0,0) is not entered again and (3,3) is entered last only;
\* no such path has fewer moves.  The search fails only when no such path of
\* MaxMoves moves or fewer exists.
C32_ShortestPath ==
  /\ solver.at = "returned" =>
       /\ ValidPath(solver.graph, solver.path)
       /\ \A k \in 0 .. Len(solver.path) - 2 : <<3, 3, 30>> \notin Within(solver.graph, k)
  /\ solver.at = "panic" =>
       \A k \in 0 .. MaxMoves : <<3, 3, 30>> \notin Within(solver.graph, k)

\* a path of eight moves was returned, on which the orb goes back over a room
C32_Witness ==
  /\ solver.at = "returned"
  /\ Len(solver.path) = 9
  /\ \E i \in 1 .. 7 : solver.path[i] = solver.path[i + 2]

\* a path of six moves was returned where a longer one exists too
C32_WitnessTwoWays ==
  /\ solver.at = "returned"
  /\ solver.graph = GridTwoWays
  /\ Len(solver.path) = 7

-----------------------------------------------------------------------------
(* The ruins solver: find_permutation() swaps its way through the orderings   *)
(* of a five-element array until the predicate holds.  `solver` holds the     *)
(* array, the counters p, idx, and what the calls of the predicate have seen.  *)

\* arr.len()
COIN_COUNT == 5

TARGET == 399

\* [a, b, c, d, e] as the array arr[0] .. arr[4]
ArrayOf(seq) == [i \in 0 .. COIN_COUNT - 1 |-> seq[i + 1]]

COINS == ArrayOf(<<2, 3, 5, 7, 9>>)

\* the predicate of main(): a + b * c^2 + d^3 - e == TARGET
CoinsPredicate(arr) ==
  arr[0] + arr[1] * arr[2] * arr[2] + arr[3] * arr[3] * arr[3] - arr[4] = TARGET

\* the predicates of the runs: main()'s, one that never holds, and those that
\* hold of one ordering only
Predicate(pred, arr) ==
  CASE pred.kind = "coins" -> CoinsPredicate(arr)
    [] pred.kind = "never" -> FALSE
    [] pred.kind = "equals" -> arr = pred.target

\* arr.swap(a, b)
Swap(arr, a, b) == [arr EXCEPT ![a] = arr[b], ![b] = arr[a]]

\* a swap partner that is p[idx] at every idx
SwapPartnerSame(p, idx) == p[idx]

\* j: p[idx] at an odd idx, 0 at an even one
SwapPartner(p, idx) == IF idx % 2 = 1 THEN p[idx] ELSE 0

\* the inner while loop: p and idx after it, idx being -1 when p[idx] was
\* indexed past the end of p
RECURSIVE Reset(_, _)
Reset(p, idx) ==
  IF idx \notin DOMAIN p THEN [p |-> p, idx |-> -1]
  ELSE IF p[idx] = 0 THEN Reset([p EXCEPT ![idx] = idx], idx + 1)
  ELSE [p |-> p, idx |-> idx]

\* the positions the array has its elements from, when nothing was swapped
Unmoved == [i \in 0 .. COIN_COUNT - 1 |-> i]

\* a call of the predicate on the array: it is counted, and the ordering it
\* saw is kept
Tested(s) == [s EXCEPT !.calls = @ + 1, !.tested = @ \cup {s.order}]

\* the function up to the outer loop: p = [0, 1, .., arr.len()], the first
\* call of the predicate, idx = 1
FindStart(s) ==
  LET called == Tested([s EXCEPT !.p = [i \in 0 .. COIN_COUNT |-> i]]) IN
  IF Predicate(s.pred, s.arr) THEN [called EXCEPT !.at = "returned"]
  ELSE [called EXCEPT !.at = IF 1 < COIN_COUNT THEN "loop" ELSE "giveup", !.idx = 1]

\* one iteration of the outer while loop.  The subtraction panics at 0, the
\* swap at an index outside the array.
FindStep(s) ==
  IF s.p[s.idx] = 0 THEN [s EXCEPT !.at = "panic"]
  ELSE LET p == [s.p EXCEPT ![s.idx] = @ - 1]
           j == SwapPartner(p, s.idx)
       IN IF j \notin DOMAIN s.arr THEN [s EXCEPT !.at = "panic", !.p = p]
          ELSE LET swapped == Tested([s EXCEPT !.p = p,
                                               !.arr = Swap(s.arr, s.idx, j),
                                               !.order = Swap(s.order, s.idx, j)])
                   reset == Reset(p, 1)
               IN IF Predicate(s.pred, swapped.arr) THEN [swapped EXCEPT !.at = "returned"]
                  ELSE IF reset.idx = -1 THEN [swapped EXCEPT !.at = "panic"]
                  ELSE [swapped EXCEPT !.p = reset.p, !.idx = reset.idx,
                                       !.at = IF reset.idx < COIN_COUNT THEN "loop"
                                              ELSE "giveup"]

\* the code after the loop: the predicate is called once more
FindEnd(s) == [Tested(s) EXCEPT !.at = "returned"]

\* the orderings of the positions
Orders == Permutations(0 .. COIN_COUNT - 1)

\* the arrays searched: the coins, and one with an element twice
Arrays == { COINS, ArrayOf(<<1, 1, 2, 3, 4>>) }

\* the predicates an array is searched with
PredicatesOf(arr) ==
  { [kind |-> "never"] }
    \cup { [kind |-> "equals", target |-> [i \in 0 .. COIN_COUNT - 1 |-> arr[o[i]]]] :
             o \in Orders }
    \cup IF arr = COINS THEN { [kind |-> "coins"] } ELSE {}

InitRuins ==
  /\ vm = New
  /\ input = <<>>
  /\ inpos = 0
  /\ output = <<>>
  /\ trace = <<>>
  /\ restored = NoCopy
  /\ room = NoParse
  /\ \E arr \in Arrays : \E pred \in PredicatesOf(arr) :
       solver = [at |-> "start", arr |-> arr, pred |-> pred, p |-> <<>>, idx |-> 0,
                 init |-> arr, order |-> Unmoved, calls |-> 0, tested |-> {}]

\* find_permutation() is entered
FindPermutationStart ==
  /\ solver.at = "start"
  /\ solver' = FindStart(solver)
  /\ UNCHANGED <<vm, input, inpos, output, trace, restored, room>>

\* an iteration of its loop
FindPermutationIterate ==
  /\ solver.at = "loop"
  /\ solver' = FindStep(solver)
  /\ UNCHANGED <<vm, input, inpos, output, trace, restored, room>>

\* the loop has ended
FindPermutationGiveUp ==
  /\ solver.at = "giveup"
  /\ solver' = FindEnd(solver)
  /\ UNCHANGED <<vm, input, inpos, output, trace, restored, room>>

NextRuins == FindPermutationStart \/ FindPermutationIterate \/ FindPermutationGiveUp

SpecRuins == InitRuins /\ [][NextRuins]_vars

\* the array holds the elements it had at first, each as often
IsPermutation(arr, init) ==
  \A v \in {init[i] : i \in DOMAIN init} :
    Cardinality({i \in DOMAIN arr : arr[i] = v}) = Cardinality({i \in DOMAIN init : init[i] = v})

\* some ordering of the first contents satisfies the predicate
Satisfiable(s) ==
  \E o \in Orders : Predicate(s.pred, [i \in 0 .. COIN_COUNT - 1 |-> s.init[o[i]]])

\* C33: find_permutation ends after at most 121 calls of the predicate, in
\* every step of which it can go on; the array is always a permutation of its
\* first contents; when it returns with the predicate false of the array it
\* has tested all 120 orderings, and when some ordering of the first contents
\* satisfies the predicate the array it returns with does.
C33_FindPermutation ==
  /\ solver.at \in {"start", "loop", "giveup", "returned"}
  /\ solver.calls <= 121
  /\ solver.at = "loop" => solver.idx \in 1 .. COIN_COUNT - 1
  /\ IsPermutation(solver.arr, solver.init)
  /\ \A i \in 0 .. COIN_COUNT - 1 : solver.arr[i] = solver.init[solver.order[i]]
  /\ solver.at = "returned" =>
       /\ ~ Predicate(solver.pred, solver.arr) =>
            solver.tested = Orders /\ Cardinality(solver.tested) = 120
       /\ Satisfiable(solver) => Predicate(solver.pred, solver.arr)

\* the search has given up after it tested every ordering
C33_Witness ==
  /\ solver.at = "returned"
  /\ solver.pred.kind = "never"
  /\ solver.calls = 121
  /\ Cardinality(solver.tested) = 120

\* main()'s search has returned with the coins in another order, which
\* satisfies the equation
C33_WitnessCoins ==
  /\ solver.at = "returned"
  /\ solver.pred.kind = "coins"
  /\ solver.arr # COINS
  /\ CoinsPredicate(solver.arr)

\* the search has returned with the array as the 120th ordering tested
C33_WitnessLast ==
  /\ solver.at = "returned"
  /\ solver.pred.kind = "equals"
  /\ solver.calls = 120
  /\ solver.arr = solver.pred.target

=============================================================================
